---- MODULE Spec2Model ----
(***************************************************************************)
(* TradeOff-Engine: the TOPSIS scoring engine (TOPSISEngine) and the       *)
(* trade-off analyzer (TradeOffAnalyzer), as a state machine.              *)
(*                                                                         *)
(* A call of calculateScores takes the caller's options and constraints    *)
(* and leaves a Result; a call of analyzeTradeOffs takes a scoring result, *)
(* options and constraints and leaves a Result.  A second specification,   *)
(* SystemSpec, is the RefereeSystem facade with its OptionManager and      *)
(* ConstraintManager: the calls that add, remove, update and compare.      *)
(*                                                                         *)
(* Numbers.  A JavaScript number given by the caller is a record           *)
(*   [k |-> "fin", v |-> m, e |-> x]   the finite number m * 10^x, or      *)
(*   [k |-> "nan", v |-> 0, e |-> 0]                                       *)
(* (NaN stands for the non-finite numbers: validation treats NaN and the   *)
(* infinities alike).  The engine's intermediate values are irrational     *)
(* (a raw score divided by the square root of a column's sum of squares),  *)
(* and are kept exactly:                                                   *)
(*   a matrix entry   [num, den, rad, e]  is num * 10^e / (den*sqrt(rad))  *)
(*   a distance       [n, d]           is the number sqrt(n/d),            *)
(*                                     and [1, 0] is Infinity              *)
(*   a closeness      [neg, pos]       is sqrt(neg)/(sqrt(neg)+sqrt(pos)), *)
(*                                     and [0,0] is NaN (0/0 or Inf/Inf).  *)
(* Of IEEE-754 the model keeps the overflow of a product to Infinity and   *)
(* the NaN that follows from it; rounding is not modelled.                 *)
(***************************************************************************)
EXTENDS Integers, Sequences, FiniteSets, TLC

VARIABLES
    pc,             \* "idle" | "scored" | "analyzed" | "configured" |
                    \* "rescored" | "mutated": what the caller did last
    methodology,    \* the engine's private methodology field
    options,        \* the caller's Option objects handed to calculateScores
    constraints,    \* the caller's Constraint objects handed to calculateScores
    scoringResult,  \* Result<ScoringResult, ValidationError> of calculateScores
    analysisArgs,   \* the arguments of the analyzeTradeOffs call
    analysisResult, \* Result<TradeOffAnalysis, ValidationError>
    secondResult,   \* the result of a second calculateScores call on the same arguments
    optionManager,      \* RefereeSystem: optionManager.options, the Map's values in
                        \* insertion order
    constraintManager,  \* RefereeSystem: constraintManager.constraints, likewise
    history             \* the RefereeSystem calls made so far, with what they returned

engineVars == <<pc, methodology, options, constraints, scoringResult, analysisArgs,
                analysisResult, secondResult>>
systemVars == <<optionManager, constraintManager, history>>
vars == <<pc, methodology, options, constraints, scoringResult, analysisArgs,
          analysisResult, secondResult, optionManager, constraintManager, history>>

(***************************************************************************)
(* Bounds of the exploration.                                              *)
(***************************************************************************)
MaxScore == 1          \* raw scores of well-formed options are 0..MaxScore
MaxWeight == 1         \* weights of well-formed constraints are 0..MaxWeight

OptionIds == <<"A", "B", "C", "D">>
ConstraintIds == <<"c1", "c2">>
Directions == {"maximize", "minimize"}

(***************************************************************************)
(* types/core: numbers, Result, ValidationError                            *)
(***************************************************************************)
Fin(v) == [k |-> "fin", v |-> v, e |-> 0]
NaN == [k |-> "nan", v |-> 0, e |-> 0]
\* 10^300: a finite double (the largest is about 1.8 * 10^308)
Extreme == [k |-> "fin", v |-> 1, e |-> 300]

\* typeof x === 'number' && isFinite(x) && !isNaN(x)
IsFiniteNumber(x) == x.k = "fin"

createValidationError(field, code) == [field |-> field, code |-> code]
createSuccess(data) == [success |-> TRUE, data |-> data]
createError(error) == [success |-> FALSE, error |-> error]

\* The value a variable holds before the call that sets it.
NoResult == [success |-> FALSE, error |-> createValidationError("none", "NOT_CALLED")]

(***************************************************************************)
(* Exact arithmetic                                                        *)
(***************************************************************************)
Abs(x) == IF x < 0 THEN -x ELSE x
Sign(x) == IF x < 0 THEN -1 ELSE IF x > 0 THEN 1 ELSE 0

RECURSIVE Gcd(_, _)
Gcd(a, b) == IF b = 0 THEN a ELSE Gcd(b, a % b)

\* Rationals n/d, d > 0, in lowest terms.
Rat(n, d) == LET g == Gcd(Abs(n), d) IN [n |-> n \div g, d |-> d \div g]
RatZero == [n |-> 0, d |-> 1]
\* +Infinity, the value of a sum of squares that has overflowed
RatInfinity == [n |-> 1, d |-> 0]
IsInfinite(a) == a.d = 0
RatAdd(a, b) ==
    IF IsInfinite(a) \/ IsInfinite(b) THEN RatInfinity
    ELSE LET l == (a.d \div Gcd(a.d, b.d)) * b.d
         IN Rat(a.n * (l \div a.d) + b.n * (l \div b.d), l)

\* Matrix entries num * 10^e / (den * sqrt(rad)), den > 0, rad > 0.
Real(num, den, rad) == [num |-> num, den |-> den, rad |-> rad, e |-> 0]
RealZero == Real(0, 1, 1)

\* a < b for two entries of one column (they have the same exponent e).
RealLess(a, b) ==
    IF a.den = b.den /\ a.rad = b.rad THEN a.num < b.num
    ELSE LET sa == Sign(a.num)
             sb == Sign(b.num)
             \* |a| < |b|  iff  a.num^2 * b.den^2 * b.rad < b.num^2 * a.den^2 * a.rad
             absLess == a.num * a.num * b.den * b.den * b.rad
                          < b.num * b.num * a.den * a.den * a.rad
             absMore == a.num * a.num * b.den * b.den * b.rad
                          > b.num * b.num * a.den * a.den * a.rad
         IN IF sa # sb THEN sa < sb
            ELSE IF sa = 0 THEN FALSE
            ELSE IF sa > 0 THEN absLess ELSE absMore

\* diff * diff is Infinity when its exact value q * 10^(2e) is above the
\* largest double, about 1.8 * 10^308; a non-zero q of this model is above
\* 10^(-10), its denominator being a machine integer.
SquareOverflows(q, e) == q.n > 0 /\ 2 * e - 10 > 308

\* (a - b)^2 for two entries of one column (same den, rad and e).
RealDiffSquared(a, b) ==
    LET diff == a.num - b.num
        q == Rat(diff * diff, a.den * a.den * a.rad)
    IN IF SquareOverflows(q, a.e) THEN RatInfinity ELSE q

(***************************************************************************)
(* Option and Constraint (types/core)                                      *)
(***************************************************************************)
\* option.scores.has(id)
ScoresHas(option, id) == id \in DOMAIN option.scores
\* option.scores.get(id) ?? 0 : the finite value, 0 when the key is absent
ScoresGetOrZero(option, id) ==
    IF ScoresHas(option, id) THEN option.scores[id].v ELSE 0

\* <<f[1], ..., f[n]>> : an array filled by a loop, one push per index
RECURSIVE Tabulate(_, _)
Tabulate(f, n) == IF n = 0 THEN <<>> ELSE Append(Tabulate(f, n - 1), f[n])

RECURSIVE Flatten(_)
Flatten(ss) == IF ss = <<>> THEN <<>> ELSE Head(ss) \o Flatten(Tail(ss))

(***************************************************************************)
(* TOPSISEngine.validateInputs: the errors pushed, in order                *)
(***************************************************************************)
\* A variant that lets an absent score through (it would then count as 0).
ScoreErrorsIgnoringAbsence(opts, cons) ==
    IF Len(opts) > 0 /\ Len(cons) > 0
    THEN Flatten([i \in 1..Len(opts) |->
           Flatten([j \in 1..Len(cons) |->
             IF ScoresHas(opts[i], cons[j].id)
                /\ ~IsFiniteNumber(opts[i].scores[cons[j].id])
             THEN <<createValidationError("options.scores", "INVALID_SCORE")>>
             ELSE <<>>])])
    ELSE <<>>

ScoreErrors(opts, cons) ==
    IF Len(opts) > 0 /\ Len(cons) > 0
    THEN Flatten([i \in 1..Len(opts) |->
           Flatten([j \in 1..Len(cons) |->
             IF ~ScoresHas(opts[i], cons[j].id)
             THEN <<createValidationError("options.scores", "MISSING_SCORE")>>
             ELSE IF ~IsFiniteNumber(opts[i].scores[cons[j].id])
                  THEN <<createValidationError("options.scores", "INVALID_SCORE")>>
                  ELSE <<>>])])
    ELSE <<>>

\* A variant that reports a weight that is not finite under another code.
WeightErrorsUnlistedCode(cons) ==
    IF Len(cons) > 0
    THEN Flatten([j \in 1..Len(cons) |->
           IF ~IsFiniteNumber(cons[j].weight)
           THEN <<createValidationError("constraints", "WEIGHT_NOT_FINITE")>>
           ELSE <<>>])
    ELSE <<>>

WeightErrors(cons) ==
    IF Len(cons) > 0
    THEN Flatten([j \in 1..Len(cons) |->
           IF ~IsFiniteNumber(cons[j].weight)
           THEN <<createValidationError("constraints", "INVALID_WEIGHT")>>
           ELSE <<>>])
    ELSE <<>>

TopsisValidateInputs(opts, cons) ==
    LET errors ==
          (IF Len(opts) < 2
           THEN <<createValidationError("options", "INSUFFICIENT_OPTIONS")>>
           ELSE <<>>)
          \o (IF Len(cons) = 0
              THEN <<createValidationError("constraints", "NO_CONSTRAINTS")>>
              ELSE <<>>)
          \o ScoreErrors(opts, cons)
          \o WeightErrors(cons)
    IN [isValid |-> errors = <<>>, errors |-> errors]

(***************************************************************************)
(* TOPSISEngine: the matrix pipeline                                       *)
(***************************************************************************)
\* option.scores.get(id) ?? 0 as the matrix holds it: the number with its
\* magnitude
ScoresGetNumberOrZero(option, id) ==
    IF ScoresHas(option, id) THEN option.scores[id] ELSE Fin(0)

buildDecisionMatrix(opts, cons) ==
    Tabulate([i \in 1..Len(opts) |->
               Tabulate([j \in 1..Len(cons) |-> ScoresGetNumberOrZero(opts[i], cons[j].id)],
                        Len(cons))],
             Len(opts))

\* value * value: Infinity when the exact square v^2 * 10^(2e) is above the
\* largest double, about 1.8 * 10^308; otherwise v^2, the square without
\* its magnitude 10^(2e)
ValueSquared(value) ==
    IF value.v # 0 /\ 2 * value.e > 308 THEN RatInfinity ELSE Rat(value.v * value.v, 1)

RECURSIVE ColumnSumSquares(_, _, _)
ColumnSumSquares(matrix, j, i) ==
    IF i = 0 THEN RatZero
    ELSE RatAdd(ColumnSumSquares(matrix, j, i - 1), ValueSquared(matrix[i][j]))

\* value / sqrt(sum of squares), or 0 for a column whose sum of squares is
\* 0; a finite value over sqrt(Infinity) is 0 as well.  The values of a
\* column whose sum of squares is finite have one magnitude 10^e, which
\* cancels in the quotient: v * 10^e / sqrt(sum of v^2 * 10^(2e)).
NormalizedValue(originalValue, sumSquares) ==
    IF IsInfinite(sumSquares) THEN RealZero
    ELSE IF sumSquares.n > 0 THEN Real(originalValue.v, 1, sumSquares.n)
    ELSE RealZero

normalizeMatrix(decisionMatrix, cons) ==
    LET numOptions == Len(decisionMatrix)
        columnSumSquares ==
          Tabulate([j \in 1..Len(cons) |->
                      ColumnSumSquares(decisionMatrix, j, numOptions)],
                   Len(cons))
    IN Tabulate([i \in 1..numOptions |->
                  Tabulate([j \in 1..Len(cons) |->
                             NormalizedValue(decisionMatrix[i][j], columnSumSquares[j])],
                           Len(cons))],
                numOptions)

PercentBase == 100

\* normalizedValue * (constraint.weight / 100)
WeightedValue(normalizedValue, weight) ==
    [Real(normalizedValue.num * weight.v, normalizedValue.den * PercentBase,
          normalizedValue.rad) EXCEPT !.e = weight.e]

applyWeights(normalizedMatrix, cons) ==
    Tabulate([i \in 1..Len(normalizedMatrix) |->
               Tabulate([j \in 1..Len(cons) |->
                           WeightedValue(normalizedMatrix[i][j], cons[j].weight)],
                        Len(cons))],
             Len(normalizedMatrix))

ColumnValues(matrix, j) == {matrix[i][j] : i \in 1..Len(matrix)}
\* Math.max(...values), Math.min(...values)
MathMax(values) == CHOOSE v \in values : \A u \in values : ~RealLess(v, u)
MathMin(values) == CHOOSE v \in values : \A u \in values : ~RealLess(u, v)

\* A variant that takes every criterion as one to maximize.
calculateIdealSolutionsAllMaximize(weightedMatrix, cons) ==
    [ideal |->
       Tabulate([j \in 1..Len(cons) |-> MathMax(ColumnValues(weightedMatrix, j))],
                Len(cons)),
     negativeIdeal |->
       Tabulate([j \in 1..Len(cons) |-> MathMin(ColumnValues(weightedMatrix, j))],
                Len(cons))]

calculateIdealSolutions(weightedMatrix, cons) ==
    [ideal |->
       Tabulate([j \in 1..Len(cons) |->
                  IF cons[j].direction = "maximize"
                  THEN MathMax(ColumnValues(weightedMatrix, j))
                  ELSE MathMin(ColumnValues(weightedMatrix, j))],
                Len(cons)),
     negativeIdeal |->
       Tabulate([j \in 1..Len(cons) |->
                  IF cons[j].direction = "maximize"
                  THEN MathMin(ColumnValues(weightedMatrix, j))
                  ELSE MathMax(ColumnValues(weightedMatrix, j))],
                Len(cons))]

\* sum over j of (row[j] - point[j])^2 : the square of the Euclidean distance
RECURSIVE SquaredDistance(_, _, _)
SquaredDistance(row, point, j) ==
    IF j = 0 THEN RatZero
    ELSE RatAdd(SquaredDistance(row, point, j - 1), RealDiffSquared(row[j], point[j]))

\* Each distance is kept as its square: the distance is sqrt(n/d).
calculateDistances(weightedMatrix, ideal, negativeIdeal) ==
    [positiveDistances |->
       Tabulate([i \in 1..Len(weightedMatrix) |->
                   SquaredDistance(weightedMatrix[i], ideal, Len(weightedMatrix[i]))],
                Len(weightedMatrix)),
     negativeDistances |->
       Tabulate([i \in 1..Len(weightedMatrix) |->
                  SquaredDistance(weightedMatrix[i], negativeIdeal, Len(weightedMatrix[i]))],
                Len(weightedMatrix))]

(***************************************************************************)
(* Closeness scores.  [neg |-> a, pos |-> b] is the number                 *)
(* sqrt(a) / (sqrt(a) + sqrt(b)), where a : b is the ratio, in lowest      *)
(* terms, of the squared distances to the negative-ideal and to the ideal  *)
(* point.  1.0 is [1, 0]; 0/0 (NaN) is [0, 0].                             *)
(***************************************************************************)
ClosenessOne == [neg |-> 1, pos |-> 0]
ClosenessNaN == [neg |-> 0, pos |-> 0]
ClosenessZero == [neg |-> 0, pos |-> 1]

\* negativeDistance / (positiveDistance + negativeDistance)
Quotient(positiveDistance, negativeDistance) ==
    LET l == (positiveDistance.d \div Gcd(positiveDistance.d, negativeDistance.d))
               * negativeDistance.d
        a == negativeDistance.n * (l \div negativeDistance.d)
        b == positiveDistance.n * (l \div positiveDistance.d)
        g == Gcd(a, b)
    IN IF g = 0 THEN ClosenessNaN ELSE [neg |-> a \div g, pos |-> b \div g]

ClosenessOf(positiveDistance, negativeDistance) ==
    IF positiveDistance.n = 0 /\ negativeDistance.n = 0   \* totalDistance === 0
    THEN ClosenessOne
    ELSE IF IsInfinite(negativeDistance) THEN ClosenessNaN     \* Infinity / Infinity
    ELSE IF IsInfinite(positiveDistance) THEN ClosenessZero    \* finite / Infinity
    ELSE Quotient(positiveDistance, negativeDistance)

calculateClosenessScores(positiveDistances, negativeDistances) ==
    Tabulate([i \in 1..Len(positiveDistances) |->
                ClosenessOf(positiveDistances[i], negativeDistances[i])],
             Len(positiveDistances))

\* The sign of a * d - c * b for a, b, c, d >= 0, found without forming the
\* products: by comparing a/b with c/d through their integer parts and the
\* reciprocals of their fractional parts.
RECURSIVE CrossSign(_, _, _, _)
CrossSign(a, b, c, d) ==
    IF b = 0 THEN (IF a > 0 /\ d > 0 THEN 1 ELSE 0)
    ELSE IF d = 0 THEN (IF c > 0 THEN -1 ELSE 0)
    ELSE IF a \div b # c \div d THEN Sign((a \div b) - (c \div d))
    ELSE IF a % b = 0 \/ c % d = 0 THEN Sign((a % b) - (c % d))
    ELSE CrossSign(d, c % d, b, a % b)

IsNaNCloseness(c) == c.neg = 0 /\ c.pos = 0
\* the sign of x - y; 0 also when the difference is NaN (a comparator value
\* of NaN is taken as +0 by Array.prototype.sort)
ClosenessDiffSign(x, y) == CrossSign(x.neg, x.pos, y.neg, y.pos)
ClosenessGreater(x, y) ==
    ~IsNaNCloseness(x) /\ ~IsNaNCloseness(y) /\ ClosenessDiffSign(x, y) > 0
ClosenessEqual(x, y) ==
    ~IsNaNCloseness(x) /\ ~IsNaNCloseness(y) /\ ClosenessDiffSign(x, y) = 0
ClosenessGeq(x, y) == ClosenessGreater(x, y) \/ ClosenessEqual(x, y)
\* 0 <= c <= 1 and c is finite
ClosenessInUnitInterval(c) == c.neg >= 0 /\ c.pos >= 0 /\ ~IsNaNCloseness(c)

(***************************************************************************)
(* TOPSISEngine.generateRankings                                           *)
(***************************************************************************)
(***************************************************************************)
(* Array.prototype.sort and the comparators handed to it.  A comparator is *)
(* kept as the relation "its value for (a, b) is negative".                *)
(***************************************************************************)
\* A variant of the comparator under which equal scores change places.
ByClosenessDescendingOrEqual(a, b) ==
    ClosenessDiffSign(b.closenessScore, a.closenessScore) <= 0

\* (a, b) => b.closenessScore - a.closenessScore
ByClosenessDescending(a, b) == ClosenessDiffSign(b.closenessScore, a.closenessScore) < 0

\* (a, b) => a - b  on the normalized scores of one constraint
ByValueAscending(a, b) == RealLess(a, b)

\* a < b for percentile ranks
PercentileLess(a, b) == a.twice * b.len < b.twice * a.len
\* (a, b) => b.percentileRank - a.percentileRank
ByPercentileDescending(a, b) == PercentileLess(b.percentileRank, a.percentileRank)
\* (a, b) => a.percentileRank - b.percentileRank
ByPercentileAscending(a, b) == PercentileLess(a.percentileRank, b.percentileRank)

\* (a, b) => a.rank - b.rank  and  (a, b) => b.rank - a.rank
ByRankAscending(a, b) == a.rank < b.rank
ByRankDescending(a, b) == b.rank < a.rank

ComesBefore(comparator, a, b) ==
    CASE comparator = "closenessDescending" -> ByClosenessDescending(a, b)
      [] comparator = "valueAscending" -> ByValueAscending(a, b)
      [] comparator = "percentileDescending" -> ByPercentileDescending(a, b)
      [] comparator = "percentileAscending" -> ByPercentileAscending(a, b)
      [] comparator = "rankAscending" -> ByRankAscending(a, b)
      [] comparator = "rankDescending" -> ByRankDescending(a, b)

\* The sort is stable: an element goes behind every element that it does
\* not come before.
RECURSIVE InsertStable(_, _, _)
InsertStable(comparator, sorted, e) ==
    IF sorted = <<>> THEN <<e>>
    ELSE LET last == sorted[Len(sorted)]
         IN IF ComesBefore(comparator, e, last)
            THEN Append(InsertStable(comparator, SubSeq(sorted, 1, Len(sorted) - 1), e), last)
            ELSE Append(sorted, e)

\* s[1..k] sorted
RECURSIVE StableSort(_, _, _)
StableSort(comparator, s, k) ==
    IF k = 0 THEN <<>>
    ELSE InsertStable(comparator, StableSort(comparator, s, k - 1), s[k])

\* sortedValues.indexOf(optionValue): the number of strictly smaller values
IndexOfInSorted(optionValue, column) ==
    Cardinality({i \in DOMAIN column : RealLess(column[i], optionValue)})

\* percentileRank >= 0.75 and percentileRank <= 0.25, with
\* percentileRank = (indexOf + 1) / length
TopsisAtLeastThreeQuarters(optionValue, column) ==
    4 * (IndexOfInSorted(optionValue, column) + 1) >= 3 * Len(column)
TopsisAtMostOneQuarter(optionValue, column) ==
    4 * (IndexOfInSorted(optionValue, column) + 1) <= Len(column)

Column(matrix, j) == Tabulate([i \in 1..Len(matrix) |-> matrix[i][j]], Len(matrix))

\* the names of the constraints 1..j that keep marks, in order
RECURSIVE SelectNames(_, _, _)
SelectNames(keep, cons, j) ==
    IF j = 0 THEN <<>>
    ELSE LET rest == SelectNames(keep, cons, j - 1)
         IN IF keep[j] THEN Append(rest, cons[j].name) ELSE rest

TopsisIdentifyStrengths(optionIndex, weightedMatrix, cons) ==
    LET isStrength == [j \in 1..Len(cons) |->
          \/ cons[j].direction = "maximize"
             /\ TopsisAtLeastThreeQuarters(weightedMatrix[optionIndex][j],
                                           Column(weightedMatrix, j))
          \/ cons[j].direction = "minimize"
             /\ TopsisAtMostOneQuarter(weightedMatrix[optionIndex][j],
                                       Column(weightedMatrix, j))]
    IN SelectNames(isStrength, cons, Len(cons))

TopsisIdentifyWeaknesses(optionIndex, weightedMatrix, cons) ==
    LET isWeakness == [j \in 1..Len(cons) |->
          \/ cons[j].direction = "maximize"
             /\ TopsisAtMostOneQuarter(weightedMatrix[optionIndex][j],
                                       Column(weightedMatrix, j))
          \/ cons[j].direction = "minimize"
             /\ TopsisAtLeastThreeQuarters(weightedMatrix[optionIndex][j],
                                           Column(weightedMatrix, j))]
    IN SelectNames(isWeakness, cons, Len(cons))

\* A ranking's option is the caller's Option object itself: `option` is its
\* place in the caller's list (a reference, not a copy).
generateRankings(opts, closenessScores, weightedMatrix, cons) ==
    LET indexedRankings ==
          Tabulate([index \in 1..Len(opts) |->
                     [index |-> index, closenessScore |-> closenessScores[index]]],
                   Len(opts))
        sorted == StableSort("closenessDescending", indexedRankings, Len(indexedRankings))
    IN Tabulate([rank \in 1..Len(sorted) |->
                  [option |-> sorted[rank].index,
                   rank |-> rank,
                   closenessScore |-> sorted[rank].closenessScore,
                   strengthAreas |->
                     TopsisIdentifyStrengths(sorted[rank].index, weightedMatrix, cons),
                   weaknessAreas |->
                     TopsisIdentifyWeaknesses(sorted[rank].index, weightedMatrix, cons)]],
                Len(sorted))

\* Map<option id, Map<constraint id, number>>
buildScoreMap(opts, cons, matrix) ==
    [id \in {opts[i].id : i \in 1..Len(opts)} |->
       LET i == CHOOSE k \in 1..Len(opts) : opts[k].id = id /\
                   \A l \in 1..Len(opts) : opts[l].id = id => l <= k
       IN [cid \in {cons[j].id : j \in 1..Len(cons)} |->
             LET j == CHOOSE k \in 1..Len(cons) : cons[k].id = cid /\
                         \A l \in 1..Len(cons) : cons[l].id = cid => l <= k
             IN matrix[i][j]]]

DefaultMethodology ==
    [normalizationMethod |-> "vector", weightingApproach |-> "linear",
     distanceMetric |-> "euclidean", idealSolutionMethod |-> "max_min"]

\* { ...this.methodology, ...methodology }
setMethodology(partial) ==
    [field \in DOMAIN methodology |->
       IF field \in DOMAIN partial THEN partial[field] ELSE methodology[field]]

(***************************************************************************)
(* TOPSISEngine.calculateScores                                            *)
(***************************************************************************)
calculateScores(opts, cons) ==
    LET validation == TopsisValidateInputs(opts, cons)
        decisionMatrix == buildDecisionMatrix(opts, cons)
        normalizedMatrix == normalizeMatrix(decisionMatrix, cons)
        weightedMatrix == applyWeights(normalizedMatrix, cons)
        sol == calculateIdealSolutions(weightedMatrix, cons)
        dist == calculateDistances(weightedMatrix, sol.ideal, sol.negativeIdeal)
        closenessScores ==
          calculateClosenessScores(dist.positiveDistances, dist.negativeDistances)
        rankings == generateRankings(opts, closenessScores, weightedMatrix, cons)
    IN IF ~validation.isValid
       THEN createError(validation.errors[1])
       ELSE createSuccess(
              [rankings |-> rankings,
               normalizedScores |-> buildScoreMap(opts, cons, normalizedMatrix),
               weightedScores |-> buildScoreMap(opts, cons, weightedMatrix),
               closenessScores |->
                 [id \in {opts[i].id : i \in 1..Len(opts)} |->
                    closenessScores[CHOOSE k \in 1..Len(opts) : opts[k].id = id /\
                       \A l \in 1..Len(opts) : opts[l].id = id => l <= k]],
               idealSolution |-> sol.ideal,
               negativeIdealSolution |-> sol.negativeIdeal,
               scoringMethodology |-> methodology])

(***************************************************************************)
(* TradeOffAnalyzer                                                        *)
(*                                                                         *)
(* objs is the caller's list of Option objects that the rankings of the    *)
(* scoring result refer to; a scoring result argument is                   *)
(* [defined |-> FALSE] (undefined) or [defined |-> TRUE, value |-> r].     *)
(***************************************************************************)
Undefined == [defined |-> FALSE]
Defined(value) == [defined |-> TRUE, value |-> value]

RankingOptionId(objs, r) == objs[r.option].id
OptionIdsOf(opts) == {opts[i].id : i \in 1..Len(opts)}

MissingScoringData(objs, sr, opts) ==
    LET scoringOptionIds ==
          {RankingOptionId(objs, sr.rankings[k]) : k \in 1..Len(sr.rankings)}
        \* the input ids, in order of first occurrence
        Missing(i) ==
          /\ opts[i].id \notin scoringOptionIds
          /\ \A l \in 1..(i - 1) : opts[l].id # opts[i].id
    IN Flatten([i \in 1..Len(opts) |->
         IF Missing(i)
         THEN <<createValidationError("consistency", "MISSING_SCORING_DATA")>>
         ELSE <<>>])

\* !scoringResult || !scoringResult.rankings
LacksRankings(scoringArg) ==
    ~scoringArg.defined \/ "rankings" \notin DOMAIN scoringArg.value

\* A variant that checks the options before the scoring result.
AnalyzerValidateInputsOptionsFirst(objs, scoringArg, opts, cons) ==
    LET errors ==
          (IF Len(opts) < 2
           THEN <<createValidationError("options", "INSUFFICIENT_OPTIONS")>>
           ELSE <<>>)
          \o (IF LacksRankings(scoringArg)
              THEN <<createValidationError("scoringResult", "INVALID_SCORING_RESULT")>>
              ELSE <<>>)
          \o (IF Len(cons) = 0
              THEN <<createValidationError("constraints", "NO_CONSTRAINTS")>>
              ELSE <<>>)
          \o (IF ~LacksRankings(scoringArg) /\ Len(opts) > 0
              THEN MissingScoringData(objs, scoringArg.value, opts)
              ELSE <<>>)
    IN [isValid |-> errors = <<>>, errors |-> errors]

AnalyzerValidateInputs(objs, scoringArg, opts, cons) ==
    LET errors ==
          (IF LacksRankings(scoringArg)
           THEN <<createValidationError("scoringResult", "INVALID_SCORING_RESULT")>>
           ELSE <<>>)
          \o (IF Len(opts) < 2
              THEN <<createValidationError("options", "INSUFFICIENT_OPTIONS")>>
              ELSE <<>>)
          \o (IF Len(cons) = 0
              THEN <<createValidationError("constraints", "NO_CONSTRAINTS")>>
              ELSE <<>>)
          \o (IF ~LacksRankings(scoringArg) /\ Len(opts) > 0
              THEN MissingScoringData(objs, scoringArg.value, opts)
              ELSE <<>>)
    IN [isValid |-> errors = <<>>, errors |-> errors]

\* A percentile rank is kept as twice its count over the length:
\* [twice |-> 2 * count, len |-> n] is the number count / n.
\* A variant that gives a value equal to the given one full credit.
calculatePercentileRankFullTies(value, sortedValues) ==
    [twice |-> 2 * Cardinality({i \in DOMAIN sortedValues :
                                  ~RealLess(value, sortedValues[i])}),
     len |-> IF Len(sortedValues) = 0 THEN 1 ELSE Len(sortedValues)]

calculatePercentileRank(value, sortedValues) ==
    IF Len(sortedValues) = 0 THEN [twice |-> 0, len |-> 1]
    ELSE IF Len(sortedValues) = 1
         THEN [twice |-> IF ~RealLess(sortedValues[1], value)
                                /\ ~RealLess(value, sortedValues[1])
                             THEN 2 ELSE 0,
               len |-> 1]
         ELSE [twice |->
                 2 * Cardinality({i \in DOMAIN sortedValues :
                                    RealLess(sortedValues[i], value)})
                 + Cardinality({i \in DOMAIN sortedValues :
                                  ~RealLess(sortedValues[i], value)
                                  /\ ~RealLess(value, sortedValues[i])}),
               len |-> Len(sortedValues)]

\* percentileRank >= 0.75, percentileRank <= 0.25
PercentileAtLeastThreeQuarters(p) == 2 * p.twice >= 3 * p.len
PercentileAtMostOneQuarter(p) == 2 * p.twice <= p.len

\* scores.get(constraint.id) ?? 0 on a Map<constraint id, number> of the result
MapGetOrZero(map, id) == IF id \in DOMAIN map THEN map[id] ELSE RealZero

\* Array.from(scoringResult.normalizedScores.values()).map(...): one value
\* per scored option, in the order the options were scored.
AllScores(objs, sr, cid) ==
    LET ids == DOMAIN sr.normalizedScores
        firsts == {i \in 1..Len(objs) :
                     objs[i].id \in ids /\ \A l \in 1..(i - 1) : objs[l].id # objs[i].id}
        RECURSIVE Collect(_)
        Collect(i) ==
          IF i = 0 THEN <<>>
          ELSE IF i \in firsts
               THEN Append(Collect(i - 1), MapGetOrZero(sr.normalizedScores[objs[i].id], cid))
               ELSE Collect(i - 1)
    IN Collect(Len(objs))

ConstraintPerformanceOf(objs, option, constraint, sr) ==
    LET normalizedScore == MapGetOrZero(sr.normalizedScores[option.id], constraint.id)
    IN [constraintId |-> constraint.id,
        constraintName |-> constraint.name,
        score |-> ScoresGetOrZero(option, constraint.id),
        normalizedScore |-> normalizedScore,
        percentileRank |->
          LET allScores == AllScores(objs, sr, constraint.id)
          IN calculatePercentileRank(normalizedScore,
                                     StableSort("valueAscending", allScores, Len(allScores)))]

\* the option's performance on every constraint, in order
ConstraintPerformances(objs, option, cons, sr) ==
    Tabulate([j \in 1..Len(cons) |-> ConstraintPerformanceOf(objs, option, cons[j], sr)],
             Len(cons))

identifyStrengths(objs, option, cons, sr) ==
    IF option.id \notin DOMAIN sr.normalizedScores THEN <<>>
    ELSE LET strengths ==
               SelectSeq(ConstraintPerformances(objs, option, cons, sr),
                         LAMBDA perf : PercentileAtLeastThreeQuarters(perf.percentileRank))
         IN StableSort("percentileDescending", strengths, Len(strengths))

identifyWeaknesses(objs, option, cons, sr) ==
    IF option.id \notin DOMAIN sr.normalizedScores THEN <<>>
    ELSE LET weaknesses ==
               SelectSeq(ConstraintPerformances(objs, option, cons, sr),
                         LAMBDA perf : PercentileAtMostOneQuarter(perf.percentileRank))
         IN StableSort("percentileAscending", weaknesses, Len(weaknesses))

\* A variant that takes the ranking at the option's place in the scored list.
FindRankingByPosition(objs, sr, id) ==
    LET hits == {k \in 1..Len(objs) : objs[k].id = id}
    IN IF hits = {} THEN 0 ELSE CHOOSE k \in hits : \A l \in hits : k <= l

\* scoringResult.rankings.find(r => r.option.id === id): the index, 0 if none
FindRanking(objs, sr, id) ==
    LET hits == {k \in 1..Len(sr.rankings) : RankingOptionId(objs, sr.rankings[k]) = id}
    IN IF hits = {} THEN 0 ELSE CHOOSE k \in hits : \A l \in hits : k <= l

\* closenessScores.get(id) ?? 0
ClosenessGetOrZero(sr, id) ==
    IF id \in DOMAIN sr.closenessScores THEN sr.closenessScores[id]
    ELSE ClosenessZero

\* A Map<option id, OptionAnalysis> is kept as the sequence of its values in
\* insertion order.
MapSet(map, analysis) ==
    IF \E k \in 1..Len(map) : map[k].optionId = analysis.optionId
    THEN [k \in 1..Len(map) |->
            IF map[k].optionId = analysis.optionId THEN analysis ELSE map[k]]
    ELSE Append(map, analysis)

RECURSIVE generateOptionAnalysesUpTo(_, _, _, _, _)
generateOptionAnalysesUpTo(objs, sr, opts, cons, i) ==
    IF i = 0 THEN <<>>
    ELSE LET rest == generateOptionAnalysesUpTo(objs, sr, opts, cons, i - 1)
             k == FindRanking(objs, sr, opts[i].id)
         IN IF k = 0 THEN rest
            ELSE MapSet(rest,
                   [optionId |-> opts[i].id,
                    strengths |-> identifyStrengths(objs, opts[i], cons, sr),
                    weaknesses |-> identifyWeaknesses(objs, opts[i], cons, sr),
                    overallScore |-> ClosenessGetOrZero(sr, opts[i].id),
                    rank |-> sr.rankings[k].rank])

generateOptionAnalyses(objs, sr, opts, cons) ==
    generateOptionAnalysesUpTo(objs, sr, opts, cons, Len(opts))

MapHas(map, id) == \E k \in 1..Len(map) : map[k].optionId = id
MapGet(map, id) == map[CHOOSE k \in 1..Len(map) : map[k].optionId = id]

(***************************************************************************)
(* TradeOffAnalyzer: pairwise comparisons                                  *)
(***************************************************************************)
Max(a, b) == IF a >= b THEN a ELSE b
Min(a, b) == IF a <= b THEN a ELSE b

\* A variant that divides by the smaller of the two magnitudes.
PercentageDifferenceByMin(rawScoreA, rawScoreB) ==
    LET minScore == Min(Abs(rawScoreA), Abs(rawScoreB))
    IN IF minScore > 0 THEN Rat(Abs(rawScoreA - rawScoreB), minScore) ELSE RatZero

\* maxScore > 0 ? |scoreDifference| / maxScore : 0
PercentageDifference(rawScoreA, rawScoreB) ==
    LET maxScore == Max(Abs(rawScoreA), Abs(rawScoreB))
    IN IF maxScore > 0 THEN Rat(Abs(rawScoreA - rawScoreB), maxScore) ELSE RatZero

\* percentageDifference > 0.3, > 0.15
SignificanceOf(percentageDifference) ==
    IF 10 * percentageDifference.n > 3 * percentageDifference.d THEN "high"
    ELSE IF 100 * percentageDifference.n > 15 * percentageDifference.d THEN "medium"
    ELSE "low"

RECURSIVE SignificantDifferences(_, _, _, _)
SignificantDifferences(optionA, optionB, cons, j) ==
    IF j = 0 THEN <<>>
    ELSE LET rest == SignificantDifferences(optionA, optionB, cons, j - 1)
             rawScoreA == ScoresGetOrZero(optionA, cons[j].id)
             rawScoreB == ScoresGetOrZero(optionB, cons[j].id)
             percentageDifference == PercentageDifference(rawScoreA, rawScoreB)
             significance == SignificanceOf(percentageDifference)
         IN IF significance # "low"
            THEN Append(rest,
                   [constraintId |-> cons[j].id,
                    constraintName |-> cons[j].name,
                    scoreDifference |-> rawScoreA - rawScoreB,
                    percentageDifference |-> percentageDifference,
                    significance |-> significance])
            ELSE rest

\* overallScoreDifference = |scoreA - scoreB| is kept as the two scores.
compareOptions(optionA, optionB, cons, sr) ==
    LET scoreA == ClosenessGetOrZero(sr, optionA.id)
        scoreB == ClosenessGetOrZero(sr, optionB.id)
    IN [optionA |-> optionA.id,
        optionB |-> optionB.id,
        winner |-> IF ClosenessGreater(scoreA, scoreB) THEN optionA.id ELSE optionB.id,
        significantDifferences |-> SignificantDifferences(optionA, optionB, cons, Len(cons)),
        overallScoreDifference |-> [absDiffOf |-> <<scoreA, scoreB>>]]

performPairwiseComparisons(sr, opts, cons) ==
    Flatten([i \in 1..Len(opts) |->
      IF i = Len(opts) THEN <<>>
      ELSE [d \in 1..(Len(opts) - i) |-> compareOptions(opts[i], opts[i + d], cons, sr)]])

(***************************************************************************)
(* TradeOffAnalyzer: dominance                                             *)
(***************************************************************************)
\* A variant of the loop that reads every constraint as one to maximize.
RECURSIVE dominatesFromAsMaximize(_, _, _, _, _)
dominatesFromAsMaximize(optionA, optionB, cons, j, hasAdvantage) ==
    IF j > Len(cons) THEN hasAdvantage
    ELSE LET scoreA == ScoresGetOrZero(optionA, cons[j].id)
             scoreB == ScoresGetOrZero(optionB, cons[j].id)
         IN IF scoreA < scoreB THEN FALSE
            ELSE dominatesFromAsMaximize(optionA, optionB, cons, j + 1,
                                         hasAdvantage \/ scoreA > scoreB)

\* The loop over the constraints: "worse" returns false at once, otherwise
\* hasAdvantage is returned at the end.
RECURSIVE dominatesFrom(_, _, _, _, _)
dominatesFrom(optionA, optionB, cons, j, hasAdvantage) ==
    IF j > Len(cons) THEN hasAdvantage
    ELSE LET scoreA == ScoresGetOrZero(optionA, cons[j].id)
             scoreB == ScoresGetOrZero(optionB, cons[j].id)
         IN IF cons[j].direction = "maximize"
            THEN IF scoreA < scoreB THEN FALSE
                 ELSE dominatesFrom(optionA, optionB, cons, j + 1,
                                    hasAdvantage \/ scoreA > scoreB)
            ELSE IF scoreA > scoreB THEN FALSE
                 ELSE dominatesFrom(optionA, optionB, cons, j + 1,
                                    hasAdvantage \/ scoreA < scoreB)

\* A variant that asks for no advantage: equal options dominate each other.
dominatesWeakly(optionA, optionB, cons) == dominatesFrom(optionA, optionB, cons, 1, TRUE)

dominates(optionA, optionB, cons) == dominatesFrom(optionA, optionB, cons, 1, FALSE)

\* the ids of the options 1..i that keep marks, in order
RECURSIVE FilterIds(_, _, _)
FilterIds(keep, opts, i) ==
    IF i = 0 THEN <<>>
    ELSE LET rest == FilterIds(keep, opts, i - 1)
         IN IF keep[i] THEN Append(rest, opts[i].id) ELSE rest

\* A variant that takes the frontier from dominanceMatrix instead of
\* dominatedBy: the options that dominate none.
findDominantOptionsByMatrix(opts, cons) ==
    LET Dominated(id) ==
          FilterIds([j \in 1..Len(opts) |->
                       \E i \in 1..Len(opts) :
                         i # j /\ opts[i].id = id /\ dominates(opts[i], opts[j], cons)],
                    opts, Len(opts))
        Dominators(id) ==
          FilterIds([i \in 1..Len(opts) |->
                       \E j \in 1..Len(opts) :
                         i # j /\ opts[j].id = id /\ dominates(opts[i], opts[j], cons)],
                    opts, Len(opts))
    IN [dominantOptions |->
          FilterIds([i \in 1..Len(opts) |-> Len(Dominated(opts[i].id)) > 0], opts, Len(opts)),
        dominatedOptions |->
          FilterIds([i \in 1..Len(opts) |-> Len(Dominators(opts[i].id)) > 0], opts, Len(opts)),
        paretoFrontier |->
          FilterIds([i \in 1..Len(opts) |-> Len(Dominated(opts[i].id)) = 0], opts, Len(opts)),
        dominanceMatrix |-> [id \in OptionIdsOf(opts) |-> Dominated(id)]]

\* dominanceMatrix.get(id) and dominatedBy.get(id): the map entry of an id
\* collects the pushes made for every option bearing that id.
findDominantOptions(opts, cons) ==
    LET Dominated(id) ==
          FilterIds([j \in 1..Len(opts) |->
                       \E i \in 1..Len(opts) :
                         i # j /\ opts[i].id = id /\ dominates(opts[i], opts[j], cons)],
                    opts, Len(opts))
        Dominators(id) ==
          FilterIds([i \in 1..Len(opts) |->
                       \E j \in 1..Len(opts) :
                         i # j /\ opts[j].id = id /\ dominates(opts[i], opts[j], cons)],
                    opts, Len(opts))
    IN [dominantOptions |->
          FilterIds([i \in 1..Len(opts) |-> Len(Dominated(opts[i].id)) > 0], opts, Len(opts)),
        dominatedOptions |->
          FilterIds([i \in 1..Len(opts) |-> Len(Dominators(opts[i].id)) > 0], opts, Len(opts)),
        paretoFrontier |->
          FilterIds([i \in 1..Len(opts) |-> Len(Dominators(opts[i].id)) = 0], opts, Len(opts)),
        dominanceMatrix |-> [id \in OptionIdsOf(opts) |-> Dominated(id)]]

(***************************************************************************)
(* TradeOffAnalyzer: recommendations                                       *)
(***************************************************************************)
RatMul(a, b) == Rat(a.n * b.n, a.d * b.d)
RatLess(a, b) == a.n * b.d < b.n * a.d
RatMin(a, b) == IF RatLess(b, a) THEN b ELSE a
RatMax(a, b) == IF RatLess(a, b) THEN b ELSE a

\* Math.min(0.95, rankScore * 0.5 + strengthScore * 0.3 + weaknessScore * 0.2)
calculateConfidence(option, allAnalyses) ==
    LET totalOptions == Len(allAnalyses)
        rankScore == Rat(totalOptions - option.rank + 1, totalOptions)
        strengthScore == RatMin(Rat(Len(option.strengths), 3), Rat(1, 1))
        weaknessScore == RatMax(RatZero, Rat(3 - Len(option.weaknesses), 3))
    IN RatMin(Rat(95, 100),
              RatAdd(RatAdd(RatMul(rankScore, Rat(5, 10)), RatMul(strengthScore, Rat(3, 10))),
                     RatMul(weaknessScore, Rat(2, 10))))

\* A variant that keeps the largest rank number.
RECURSIVE WorstByRank(_, _)
WorstByRank(analyses, k) ==
    IF k = 0 THEN 0
    ELSE LET best == WorstByRank(analyses, k - 1)
         IN IF best = 0 \/ analyses[k].rank > analyses[best].rank THEN k ELSE best

RECURSIVE BestByRank(_, _)
BestByRank(analyses, k) ==
    IF k = 0 THEN 0
    ELSE LET best == BestByRank(analyses, k - 1)
         IN IF best = 0 \/ analyses[k].rank < analyses[best].rank THEN k ELSE best

findBestOverallOption(optionAnalyses) ==
    LET best == BestByRank(optionAnalyses, Len(optionAnalyses))
    IN IF best = 0 THEN <<>>
       ELSE <<[type |-> "best_overall",
               optionId |-> optionAnalyses[best].optionId,
               confidence |-> calculateConfidence(optionAnalyses[best], optionAnalyses)]>>

\* ids.map(id => optionAnalyses.get(id)) without the undefined entries,
\* which the filter that follows drops
RECURSIVE LookupAnalyses(_, _, _)
LookupAnalyses(optionAnalyses, ids, k) ==
    IF k = 0 THEN <<>>
    ELSE LET rest == LookupAnalyses(optionAnalyses, ids, k - 1)
         IN IF MapHas(optionAnalyses, ids[k])
            THEN Append(rest, MapGet(optionAnalyses, ids[k]))
            ELSE rest

\* A variant that sorts the candidates by descending rank number.
findCompromiseOptionWorstRanked(optionAnalyses, dominanceRelations) ==
    LET candidates ==
          SelectSeq(LookupAnalyses(optionAnalyses, dominanceRelations.paretoFrontier,
                                   Len(dominanceRelations.paretoFrontier)),
                    LAMBDA analysis : analysis.rank > 1)
        paretoOptions == StableSort("rankDescending", candidates, Len(candidates))
    IN IF paretoOptions = <<>> THEN <<>>
       ELSE <<[type |-> "compromise",
               optionId |-> paretoOptions[1].optionId,
               confidence |-> calculateConfidence(paretoOptions[1], optionAnalyses)]>>

findCompromiseOption(optionAnalyses, dominanceRelations) ==
    LET candidates ==
          SelectSeq(LookupAnalyses(optionAnalyses, dominanceRelations.paretoFrontier,
                                   Len(dominanceRelations.paretoFrontier)),
                    LAMBDA analysis : analysis.rank > 1)
        paretoOptions == StableSort("rankAscending", candidates, Len(candidates))
    IN IF paretoOptions = <<>> THEN <<>>
       ELSE <<[type |-> "compromise",
               optionId |-> paretoOptions[1].optionId,
               confidence |-> calculateConfidence(paretoOptions[1], optionAnalyses)]>>

\* A variant that sorts the candidates by ascending rank number.
findOptionToAvoidBestRanked(optionAnalyses, dominanceRelations) ==
    LET candidates ==
          SelectSeq(LookupAnalyses(optionAnalyses, dominanceRelations.dominatedOptions,
                                   Len(dominanceRelations.dominatedOptions)),
                    LAMBDA analysis : Len(analysis.weaknesses) >= 2)
        dominatedOptions == StableSort("rankAscending", candidates, Len(candidates))
    IN IF dominatedOptions = <<>> THEN <<>>
       ELSE <<[type |-> "avoid",
               optionId |-> dominatedOptions[1].optionId,
               confidence |-> calculateConfidence(dominatedOptions[1], optionAnalyses)]>>

findOptionToAvoid(optionAnalyses, dominanceRelations) ==
    LET candidates ==
          SelectSeq(LookupAnalyses(optionAnalyses, dominanceRelations.dominatedOptions,
                                   Len(dominanceRelations.dominatedOptions)),
                    LAMBDA analysis : Len(analysis.weaknesses) >= 2)
        dominatedOptions == StableSort("rankDescending", candidates, Len(candidates))
    IN IF dominatedOptions = <<>> THEN <<>>
       ELSE <<[type |-> "avoid",
               optionId |-> dominatedOptions[1].optionId,
               confidence |-> calculateConfidence(dominatedOptions[1], optionAnalyses)]>>

generateRecommendations(optionAnalyses, dominanceRelations) ==
    findBestOverallOption(optionAnalyses)
    \o findCompromiseOption(optionAnalyses, dominanceRelations)
    \o findOptionToAvoid(optionAnalyses, dominanceRelations)

(***************************************************************************)
(* TradeOffAnalyzer.analyzeTradeOffs                                       *)
(***************************************************************************)
analyzeTradeOffs(objs, scoringArg, opts, cons) ==
    LET validation == AnalyzerValidateInputs(objs, scoringArg, opts, cons)
        sr == scoringArg.value
        optionAnalyses == generateOptionAnalyses(objs, sr, opts, cons)
        dominanceRelations == findDominantOptions(opts, cons)
    IN IF ~validation.isValid
       THEN createError(validation.errors[1])
       ELSE createSuccess(
              [optionAnalyses |-> optionAnalyses,
               pairwiseComparisons |-> performPairwiseComparisons(sr, opts, cons),
               dominanceRelations |-> dominanceRelations,
               recommendations |-> generateRecommendations(optionAnalyses, dominanceRelations)])

(***************************************************************************)
(* The callers' inputs                                                     *)
(***************************************************************************)
ConstraintIdSet(m) == {ConstraintIds[j] : j \in 1..m}

\* The score maps over the first m constraints with values drawn from
\* cells: total ones, or (partial) over any subset of the constraints.
ScoreMaps(m, cells, partial) ==
    IF partial THEN UNION {[dom -> cells] : dom \in SUBSET ConstraintIdSet(m)}
    ELSE [ConstraintIdSet(m) -> cells]

\* The list of options with the score maps f[1], ..., f[n].
OptionList(n, f) ==
    [i \in 1..n |-> [id |-> OptionIds[i], name |-> OptionIds[i], scores |-> f[i]]]

\* The list of constraints with the weights and directions g[1], ..., g[m].
ConstraintList(m, g) ==
    [j \in 1..m |-> [id |-> ConstraintIds[j], name |-> ConstraintIds[j],
                     weight |-> g[j].weight, direction |-> g[j].direction]]

\* Well-formed data: every option scored on every constraint with a finite
\* value, every weight finite and non-negative.
RegularCells == {Fin(v) : v \in 0..MaxScore}
RegularWeights == {Fin(w) : w \in 0..MaxWeight}
RegularOptionCounts == {0, 1, 2, 3}

\* Data with defects: scores absent or not finite, weights negative or not
\* finite; one or two options.
IrregularCells == {NaN, Fin(1)}
IrregularWeights == {NaN, Fin(1), Fin(-1)}
IrregularOptionCounts == {1, 2}

\* Well-formed data in which some weight is of extreme magnitude: finite,
\* so that validation accepts it.
ExtremeWeights == {Fin(1), Extreme}
ExtremeCells == {Fin(0), Fin(1)}
ExtremeOptionCounts == {2, 3}

\* Well-formed data over four options whose scores differ by a quarter,
\* under equal weights.
WideCells == {Fin(3), Fin(4)}
WideWeights == {Fin(1)}
WideOptionCounts == {4}

\* Well-formed data under a single criterion that carries the whole weight
\* of 100, with scores up to the extreme magnitude.
SingleWeights == {Fin(100)}
SingleCells == {Fin(1), Fin(2), Extreme}
SingleOptionCounts == {2, 3}

\* The supplier selection example: three suppliers under four criteria.
Tenths(v) == [k |-> "fin", v |-> v, e |-> -1]
SupplierOptions ==
    <<[id |-> "supplier_a", name |-> "Supplier A",
       scores |-> [cost |-> Fin(250), quality |-> Fin(16), delivery |-> Tenths(85),
                   service |-> Fin(5)]],
      [id |-> "supplier_b", name |-> "Supplier B",
       scores |-> [cost |-> Fin(200), quality |-> Fin(16), delivery |-> Tenths(90),
                   service |-> Fin(4)]],
      [id |-> "supplier_c", name |-> "Supplier C",
       scores |-> [cost |-> Fin(300), quality |-> Fin(32), delivery |-> Tenths(70),
                   service |-> Fin(4)]]>>
SupplierConstraints ==
    <<[id |-> "cost", name |-> "Cost", weight |-> Fin(30), direction |-> "minimize"],
      [id |-> "quality", name |-> "Quality", weight |-> Fin(40), direction |-> "maximize"],
      [id |-> "delivery", name |-> "Delivery Time", weight |-> Fin(20),
       direction |-> "maximize"],
      [id |-> "service", name |-> "Service Level", weight |-> Fin(10),
       direction |-> "maximize"]>>

WeightsOf(cons) == {cons[j].weight : j \in 1..Len(cons)}

\* An option the scoring call never saw.
UnscoredOption(cons) ==
    [id |-> "Z", name |-> "Z",
     scores |-> [cid \in {cons[j].id : j \in 1..Len(cons)} |-> Fin(1)]]

\* The argument lists of an analyzeTradeOffs call that follows a scoring
\* call over opts and cons: the same lists, the options without the first
\* one, the last two options, the options with an unscored one, or no
\* constraints.
AnalysisCalls(opts, cons) ==
    {[scoringResult |-> "result.data", options |-> opts, constraints |-> cons],
     [scoringResult |-> "result.data", options |-> Append(opts, UnscoredOption(cons)),
      constraints |-> cons],
     [scoringResult |-> "result.data", options |-> opts, constraints |-> <<>>]}
    \cup (IF opts = <<>> THEN {}
          ELSE {[scoringResult |-> "result.data", options |-> Tail(opts),
                 constraints |-> cons]})
    \cup (IF Len(opts) < 2 THEN {}
          ELSE {[scoringResult |-> "result.data",
                 options |-> SubSeq(opts, Len(opts) - 1, Len(opts)),
                 constraints |-> cons]})

\* The arguments of a setMethodology call: no field, or another distance
\* metric.
PartialMethodologies == {<<>>, [distanceMetric |-> "manhattan"]}

\* The calls that follow a scoring call other than analyzeTradeOffs (a
\* second scoring call, setMethodology, a write to an input object) are
\* explored after scoring calls of at most two options.
FollowedUpOptionCounts == {0, 1, 2}

NoArgs == [scoringResult |-> "result.data", options |-> <<>>, constraints |-> <<>>]

(***************************************************************************)
(* The state machine                                                       *)
(***************************************************************************)
\* The caller's constraints exist before any call.
Init ==
    /\ pc = "idle"
    /\ methodology = DefaultMethodology
    /\ options = <<>>
    /\ \/ constraints = SupplierConstraints
       \/ \E m \in 0..Len(ConstraintIds) :
            \E g \in [1..m -> [weight : RegularWeights \cup IrregularWeights
                                          \cup ExtremeWeights \cup SingleWeights,
                               direction : Directions]] :
              /\ constraints = ConstraintList(m, g)
              /\ \/ WeightsOf(constraints) \subseteq RegularWeights
                 \/ WeightsOf(constraints) \subseteq IrregularWeights
                 \/ WeightsOf(constraints) \subseteq ExtremeWeights
                 \/ m = 1 /\ WeightsOf(constraints) \subseteq SingleWeights
    /\ scoringResult = NoResult
    /\ analysisArgs = NoArgs
    /\ analysisResult = NoResult
    /\ secondResult = NoResult
    /\ optionManager = <<>>
    /\ constraintManager = <<>>
    /\ history = <<>>

\* const result = engine.calculateScores(opts, constraints)
Score(opts) ==
    /\ options' = opts
    /\ scoringResult' = calculateScores(opts, constraints)
    /\ pc' = "scored"
    /\ UNCHANGED <<methodology, constraints, analysisArgs, analysisResult, secondResult>>
    /\ UNCHANGED systemVars

\* A scoring call on well-formed data, of any number of options.
CalculateScores ==
    /\ pc = "idle"
    /\ WeightsOf(constraints) \subseteq RegularWeights
    /\ \E n \in RegularOptionCounts :
         \E f \in [1..n -> ScoreMaps(Len(constraints), RegularCells, FALSE)] :
           Score(OptionList(n, f))

\* A scoring call on well-formed data of four options.
CalculateScoresWide ==
    /\ pc = "idle"
    /\ Len(constraints) > 0
    /\ WeightsOf(constraints) \subseteq WideWeights
    /\ \E n \in WideOptionCounts :
         \E f \in [1..n -> ScoreMaps(Len(constraints), WideCells, FALSE)] :
           Score(OptionList(n, f))

\* A scoring call on data with defects.
CalculateScoresIrregular ==
    /\ pc = "idle"
    /\ Len(constraints) > 0
    /\ WeightsOf(constraints) \subseteq IrregularWeights
    /\ \E n \in IrregularOptionCounts :
         \E f \in [1..n -> ScoreMaps(Len(constraints), IrregularCells, TRUE)] :
           Score(OptionList(n, f))

\* A scoring call on well-formed data with a weight of extreme magnitude.
CalculateScoresExtreme ==
    /\ pc = "idle"
    /\ Extreme \in WeightsOf(constraints)
    /\ WeightsOf(constraints) \subseteq ExtremeWeights
    /\ \E n \in ExtremeOptionCounts :
         \E f \in [1..n -> ScoreMaps(Len(constraints), ExtremeCells, FALSE)] :
           Score(OptionList(n, f))

\* A scoring call on well-formed data under a single criterion of weight 100.
CalculateScoresSingle ==
    /\ pc = "idle"
    /\ Len(constraints) = 1
    /\ WeightsOf(constraints) \subseteq SingleWeights
    /\ \E n \in SingleOptionCounts :
         \E f \in [1..n -> ScoreMaps(Len(constraints), SingleCells, FALSE)] :
           Score(OptionList(n, f))

\* The scoring call of the supplier selection example.
CalculateScoresSupplier ==
    /\ pc = "idle"
    /\ constraints = SupplierConstraints
    /\ Score(SupplierOptions)

\* The analyzer's calls are explored over scores of magnitude 10^0.
OrdinaryScores(opts) ==
    \A i \in 1..Len(opts) : \A cid \in DOMAIN opts[i].scores : opts[i].scores[cid].e = 0

\* The scoring result a caller can hand on: result.data, which is undefined
\* when the scoring call failed.
ScoringArg == IF scoringResult.success THEN Defined(scoringResult.data) ELSE Undefined

\* After a failed scoring call a caller may also hand on, with the same
\* lists, the failure object itself, which has no rankings.
FailureObjectCalls ==
    IF scoringResult.success THEN {}
    ELSE {[scoringResult |-> "result", options |-> options, constraints |-> constraints]}
ScoringArgOf(expression) ==
    IF expression = "result" THEN Defined(scoringResult) ELSE ScoringArg

\* const analysis = analyzer.analyzeTradeOffs(result.data, options, constraints)
AnalyzeTradeOffs ==
    /\ pc = "scored"
    /\ OrdinaryScores(options)
    /\ \E call \in AnalysisCalls(options, constraints) \cup FailureObjectCalls :
         /\ analysisArgs' = call
         /\ analysisResult' =
              analyzeTradeOffs(options, ScoringArgOf(call.scoringResult), call.options,
                               call.constraints)
    /\ pc' = "analyzed"
    /\ UNCHANGED <<methodology, options, constraints, scoringResult, secondResult>>
    /\ UNCHANGED systemVars

\* engine.setMethodology(partial), after the first scoring call
SetMethodology ==
    /\ pc = "scored"
    /\ Len(options) \in FollowedUpOptionCounts
    /\ \E partial \in PartialMethodologies : methodology' = setMethodology(partial)
    /\ pc' = "configured"
    /\ UNCHANGED <<options, constraints, scoringResult, analysisArgs, analysisResult,
                   secondResult>>
    /\ UNCHANGED systemVars

\* const second = engine.calculateScores(options, constraints): the same
\* arguments as the first call
CalculateScoresAgain ==
    /\ pc \in {"scored", "configured"}
    /\ Len(options) \in FollowedUpOptionCounts
    /\ secondResult' = calculateScores(options, constraints)
    /\ pc' = "rescored"
    /\ UNCHANGED <<methodology, options, constraints, scoringResult, analysisArgs,
                   analysisResult>>
    /\ UNCHANGED systemVars

\* options[i].name = "renamed": the caller writes to one of the Option objects
\* it handed to calculateScores
MutateOption ==
    /\ pc = "scored"
    /\ Len(options) \in FollowedUpOptionCounts
    /\ \E i \in 1..Len(options) : options' = [options EXCEPT ![i].name = "renamed"]
    /\ pc' = "mutated"
    /\ UNCHANGED <<methodology, constraints, scoringResult, analysisArgs, analysisResult,
                   secondResult>>
    /\ UNCHANGED systemVars

Next ==
    \/ CalculateScores
    \/ CalculateScoresWide
    \/ CalculateScoresIrregular
    \/ CalculateScoresExtreme
    \/ CalculateScoresSingle
    \/ CalculateScoresSupplier
    \/ AnalyzeTradeOffs
    \/ SetMethodology
    \/ CalculateScoresAgain
    \/ MutateOption

Spec == Init /\ [][Next]_vars

(***************************************************************************)
(* Properties of calculateScores                                           *)
(***************************************************************************)
Scored == pc # "idle"
ScoringSucceeded == Scored /\ scoringResult.success
Rankings == scoringResult.data.rankings

RanksAreDense(r) == \A i \in 1..Len(r) : r[i].rank = i
ClosenessNonIncreasing(r) ==
    \A i \in 1..(Len(r) - 1) : ClosenessGeq(r[i].closenessScore, r[i + 1].closenessScore)
EachOptionOnce(r, n) ==
    /\ Len(r) = n
    /\ \A o \in 1..n : Cardinality({i \in 1..Len(r) : r[i].option = o}) = 1
HasNaNCloseness(r) == \E i \in 1..Len(r) : IsNaNCloseness(r[i].closenessScore)

\* C1: after every successful calculateScores call over N options the
\* rankings have closeness scores in non-increasing order
\* (rankings[i].closenessScore >= rankings[i+1].closenessScore), rank
\* numbers 1, 2, ..., N in list order, and every input option exactly once.
C1_RankOrdering ==
    ScoringSucceeded =>
      /\ RanksAreDense(Rankings)
      /\ ClosenessNonIncreasing(Rankings)
      /\ EachOptionOnce(Rankings, Len(options))

\* C1, where it fails: one criterion to maximize, of weight 10^300, with
\* A scoring 0 and B scoring 1.  A (closeness 0) is ranked first and B
\* (closeness NaN) second, and 0 >= NaN is false.
C1_ZeroRankedAboveNaN ==
    /\ ScoringSucceeded
    /\ Len(options) = 2 /\ Len(constraints) = 1
    /\ constraints[1].weight = Extreme /\ constraints[1].direction = "maximize"
    /\ options[1].scores["c1"] = Fin(0) /\ options[2].scores["c1"] = Fin(1)
    /\ Rankings[1].option = 1 /\ Rankings[1].closenessScore = ClosenessZero
    /\ Rankings[2].option = 2 /\ IsNaNCloseness(Rankings[2].closenessScore)

\* C1 for the calls whose closeness scores are all numbers: the three
\* parts of C1 hold, and the dense ranks and the presence of every option
\* hold in every successful call.
C1_RankOrderingOfNumbers ==
    ScoringSucceeded =>
      /\ RanksAreDense(Rankings)
      /\ EachOptionOnce(Rankings, Len(options))
      /\ HasNaNCloseness(Rankings) \/ ClosenessNonIncreasing(Rankings)

\* C2: for options and constraints that pass validateInputs, calculateScores
\* succeeds and every closeness score, in the rankings and in the
\* closenessScores map, is a finite number between 0 and 1.
C2_ClosenessBounds ==
    Scored /\ TopsisValidateInputs(options, constraints).isValid =>
      /\ scoringResult.success
      /\ \A i \in 1..Len(Rankings) : ClosenessInUnitInterval(Rankings[i].closenessScore)
      /\ \A id \in DOMAIN scoringResult.data.closenessScores :
           ClosenessInUnitInterval(scoringResult.data.closenessScores[id])

\* C2, where it fails: a successful call that returns a closeness of NaN.
C2_NaNClosenessReturned ==
    /\ ScoringSucceeded
    /\ \E id \in DOMAIN scoringResult.data.closenessScores :
         IsNaNCloseness(scoringResult.data.closenessScores[id])

\* C2 for weights of ordinary magnitude, where no product overflows: the
\* closeness scores are finite and in [0, 1], also for a column of zeros
\* and for an option at distance zero of both ideal points.
C2_ClosenessBoundsOrdinaryWeights ==
    Scored /\ TopsisValidateInputs(options, constraints).isValid
           /\ Extreme \notin WeightsOf(constraints) =>
      /\ scoringResult.success
      /\ \A i \in 1..Len(Rankings) : ClosenessInUnitInterval(Rankings[i].closenessScore)

\* The defects of the options' scores, found without the engine's validation.
ScoreAbsent(opts, cons, cell) == cons[cell[2]].id \notin DOMAIN opts[cell[1]].scores
ScoreNotFinite(opts, cons, cell) ==
    /\ ~ScoreAbsent(opts, cons, cell)
    /\ opts[cell[1]].scores[cons[cell[2]].id].k # "fin"
DefectiveCells(opts, cons) ==
    {cell \in (1..Len(opts)) \X (1..Len(cons)) :
       ScoreAbsent(opts, cons, cell) \/ ScoreNotFinite(opts, cons, cell)}
\* the first defective cell, options in list order and then constraints
FirstDefectiveCell(opts, cons) ==
    CHOOSE c \in DefectiveCells(opts, cons) :
      \A d \in DefectiveCells(opts, cons) :
        c[1] < d[1] \/ (c[1] = d[1] /\ c[2] <= d[2])
ExpectedScoreFailure(opts, cons) ==
    IF Len(opts) < 2 THEN "INSUFFICIENT_OPTIONS"
    ELSE IF Len(cons) = 0 THEN "NO_CONSTRAINTS"
    ELSE IF DefectiveCells(opts, cons) = {} THEN "none"
    ELSE IF ScoreAbsent(opts, cons, FirstDefectiveCell(opts, cons)) THEN "MISSING_SCORE"
    ELSE "INVALID_SCORE"

\* C3 (as amended): calculateScores fails, and returns no ScoringResult, when
\* given fewer than 2 options (code INSUFFICIENT_OPTIONS), else no constraint
\* (code NO_CONSTRAINTS), else an option whose score for some constraint is
\* absent or not a finite number; the code is then that of the first such
\* score, options in list order and then constraints: MISSING_SCORE when it
\* is absent, INVALID_SCORE when it is not finite.  No successful result
\* comes from an option that lacks a score.
C3_ValidationFailures ==
    Scored =>
      /\ ExpectedScoreFailure(options, constraints) # "none" =>
           /\ ~scoringResult.success
           /\ scoringResult.error.code = ExpectedScoreFailure(options, constraints)
      /\ scoringResult.success =>
           \A cell \in (1..Len(options)) \X (1..Len(constraints)) :
             ~ScoreAbsent(options, constraints, cell)

\* C3's case: two options, the second one lacks a score, and the call has
\* failed with MISSING_SCORE.
C3_MissingScoreReported ==
    /\ Scored /\ Len(options) = 2 /\ Len(constraints) = 2
    /\ DOMAIN options[1].scores = {"c1", "c2"}
    /\ DOMAIN options[2].scores = {"c1"}
    /\ ~scoringResult.success
    /\ scoringResult.error.code = "MISSING_SCORE"

\* C3 (as stated): calculateScores fails when given fewer than 2 options
\* (code INSUFFICIENT_OPTIONS), no constraint (code NO_CONSTRAINTS) or an
\* option without a score for some constraint (code MISSING_SCORE): the
\* code returned is one of those whose condition holds.
C3_StatedCodes ==
    Scored =>
      LET applicable ==
            (IF Len(options) < 2 THEN {"INSUFFICIENT_OPTIONS"} ELSE {})
            \cup (IF Len(constraints) = 0 THEN {"NO_CONSTRAINTS"} ELSE {})
            \cup (IF \E cell \in (1..Len(options)) \X (1..Len(constraints)) :
                       ScoreAbsent(options, constraints, cell)
                  THEN {"MISSING_SCORE"} ELSE {})
      IN applicable # {} =>
           ~scoringResult.success /\ scoringResult.error.code \in applicable

IsNegativeOrNonFinite(weight) == weight.k # "fin" \/ weight.v < 0

\* C4: given at least 2 options and at least 1 constraint with complete
\* finite scores, calculateScores fails with code INVALID_WEIGHT whenever a
\* constraint's weight is negative or not finite.
C4_InvalidWeight ==
    Scored /\ Len(options) >= 2 /\ Len(constraints) >= 1
           /\ DefectiveCells(options, constraints) = {}
           /\ (\E j \in 1..Len(constraints) : IsNegativeOrNonFinite(constraints[j].weight)) =>
      ~scoringResult.success /\ scoringResult.error.code = "INVALID_WEIGHT"

\* C4, where it fails: A and B both score 1 on the one constraint, whose
\* weight is -1, and the call has succeeded.
C4_NegativeWeightAccepted ==
    /\ Scored /\ Len(options) = 2 /\ Len(constraints) = 1
    /\ constraints[1].weight = Fin(-1)
    /\ options[1].scores = [c \in {"c1"} |-> Fin(1)]
    /\ options[2].scores = [c \in {"c1"} |-> Fin(1)]
    /\ scoringResult.success

Times(x, y) ==
    IF x.k = "fin" /\ y.k = "fin" /\ x.e + y.e <= Extreme.e
    THEN [k |-> "fin", v |-> x.v * y.v, e |-> x.e + y.e]
    ELSE NaN
ScaleWeights(cons, factor) ==
    [j \in 1..Len(cons) |-> [cons[j] EXCEPT !.weight = Times(@, factor)]]
RankingOrder(result) ==
    [i \in 1..Len(result.data.rankings) |-> result.data.rankings[i].option]
RankingUnchangedBy(factor) ==
    LET scaled == calculateScores(options, ScaleWeights(constraints, factor))
    IN scaled.success /\ RankingOrder(scaled) = RankingOrder(scoringResult)

\* C6: for valid inputs, multiplying every constraint's weight by the same
\* positive constant (here 2, 3 or 10^300) leaves the ranking unchanged: the
\* same options have the same rank numbers in the same order.
C6_WeightScaling ==
    ScoringSucceeded /\ WeightsOf(constraints) \subseteq RegularWeights =>
      \A factor \in {Fin(2), Fin(3), Extreme} : RankingUnchangedBy(factor)

\* C6, where it fails: one criterion to maximize of weight 1, A scoring 0
\* and B scoring 1; B is ranked first, and with the weight multiplied by
\* 10^300 A is ranked first.
C6_ScalingReversesRanking ==
    /\ ScoringSucceeded
    /\ Len(options) = 2 /\ Len(constraints) = 1
    /\ constraints[1].weight = Fin(1) /\ constraints[1].direction = "maximize"
    /\ options[1].scores["c1"] = Fin(0) /\ options[2].scores["c1"] = Fin(1)
    /\ RankingOrder(scoringResult) = <<2, 1>>
    /\ RankingOrder(calculateScores(options, ScaleWeights(constraints, Extreme))) = <<1, 2>>

\* C6 for the factors 2 and 3, under which no product overflows: the
\* ranking is unchanged.
C6_WeightScalingOrdinaryFactors ==
    ScoringSucceeded /\ WeightsOf(constraints) \subseteq RegularWeights =>
      \A factor \in {Fin(2), Fin(3)} : RankingUnchangedBy(factor)

(***************************************************************************)
(* Properties of analyzeTradeOffs                                          *)
(***************************************************************************)
AnalysisSucceeded == pc = "analyzed" /\ analysisResult.success
Passed == analysisArgs.options
Frontier == analysisResult.data.dominanceRelations.paretoFrontier
IdsIn(ids) == {ids[k] : k \in 1..Len(ids)}

\* C7: after every successful analyzeTradeOffs call
\* dominanceRelations.paretoFrontier holds at least one option.
C7_ParetoFrontierNonEmpty == AnalysisSucceeded => Len(Frontier) >= 1

\* C7's case: some of the options passed are dominated, some are identical
\* to another one, and the frontier is a proper, non-empty part of them.
C7_FrontierWithDominatedOptions ==
    /\ AnalysisSucceeded /\ Len(Passed) = 3
    /\ Passed[1].scores = Passed[2].scores
    /\ Len(analysisResult.data.dominanceRelations.dominatedOptions) = 1
    /\ Len(Frontier) = 2

\* A is strictly better than B on every constraint: a strictly larger raw
\* score where the direction is maximize, a strictly smaller one where it
\* is minimize.
StrictlyBetterEverywhere(optionA, optionB, cons) ==
    \A j \in 1..Len(cons) :
      LET scoreA == optionA.scores[cons[j].id].v
          scoreB == optionB.scores[cons[j].id].v
      IN IF cons[j].direction = "maximize" THEN scoreA > scoreB ELSE scoreA < scoreB

\* C8: if option A is strictly better than option B on every constraint,
\* then B is not in dominanceRelations.paretoFrontier.
C8_StrictlyWorseNotOnFrontier ==
    AnalysisSucceeded =>
      \A a, b \in 1..Len(Passed) :
        StrictlyBetterEverywhere(Passed[a], Passed[b], analysisArgs.constraints)
        => Passed[b].id \notin IdsIn(Frontier)

\* C8's case: two constraints of opposite directions, and the second option
\* is strictly better than the first one on both.
C8_StrictlyWorseOnMixedDirections ==
    /\ AnalysisSucceeded
    /\ Len(analysisArgs.constraints) = 2
    /\ analysisArgs.constraints[1].direction = "maximize"
    /\ analysisArgs.constraints[2].direction = "minimize"
    /\ StrictlyBetterEverywhere(Passed[2], Passed[1], analysisArgs.constraints)
    /\ Passed[1].id \notin IdsIn(Frontier)
    /\ Passed[2].id \in IdsIn(Frontier)

\* The rank an option id has in scoringResult.rankings.
ScoringRankOf(id) ==
    Rankings[CHOOSE k \in 1..Len(Rankings) : options[Rankings[k].option].id = id].rank
OptionAnalyses == analysisResult.data.optionAnalyses

\* C9: for every option id passed to a successful analyzeTradeOffs call,
\* optionAnalyses has an entry for that id, and the entry's rank is the rank
\* the option has in scoringResult.rankings.
C9_AnalysisRankIsScoringRank ==
    AnalysisSucceeded =>
      \A i \in 1..Len(Passed) :
        LET entries == {k \in 1..Len(OptionAnalyses) :
                          OptionAnalyses[k].optionId = Passed[i].id}
        IN /\ Cardinality(entries) = 1
           /\ \A k \in entries : OptionAnalyses[k].rank = ScoringRankOf(Passed[i].id)

\* C9's case: three options analysed, ranked in the reverse of their input
\* order.
C9_RanksAgainstInputOrder ==
    /\ AnalysisSucceeded /\ Len(Passed) = 3
    /\ RankingOrder(scoringResult) = <<3, 2, 1>>
    /\ OptionAnalyses[1].optionId = "A" /\ OptionAnalyses[1].rank = 3

Recommendations == analysisResult.data.recommendations
BestOverall == {k \in 1..Len(Recommendations) : Recommendations[k].type = "best_overall"}

Confidences == {Recommendations[k].confidence : k \in 1..Len(Recommendations)}

\* C11 (as stated): every recommendation of a successful analyzeTradeOffs
\* call has a confidence of at least 0 and at most 0.95.
C11_ConfidenceBounds ==
    AnalysisSucceeded =>
      \A c \in Confidences : ~RatLess(c, RatZero) /\ ~RatLess(Rat(95, 100), c)

\* C11's case: four options were scored, the last two are passed to
\* analyzeTradeOffs, and the avoid recommendation names the rank-4 option
\* with a confidence below 0.
C11_NegativeConfidence ==
    /\ AnalysisSucceeded
    /\ Len(options) = 4 /\ Len(Passed) = 2
    /\ \E k \in 1..Len(Recommendations) :
         /\ Recommendations[k].type = "avoid"
         /\ ScoringRankOf(Recommendations[k].optionId) = 4
         /\ RatLess(Recommendations[k].confidence, RatZero)

\* What holds of the code: no confidence exceeds 0.95, and none is below 0
\* when every scored option is passed to the call.
C11_ConfidenceBoundsAllPassed ==
    AnalysisSucceeded =>
      \A c \in Confidences :
        /\ ~RatLess(Rat(95, 100), c)
        /\ Len(Passed) = Len(options) => ~RatLess(c, RatZero)


(***************************************************************************)
(* Percentile ranks of analyzeTradeOffs                                    *)
(***************************************************************************)
NormalizedScores == scoringResult.data.normalizedScores
ScoredIds == DOMAIN NormalizedScores
StrictlySmaller(id, cid) ==
    {o \in ScoredIds : RealLess(NormalizedScores[o][cid], NormalizedScores[id][cid])}
EquallyScored(id, cid) ==
    {o \in ScoredIds : /\ ~RealLess(NormalizedScores[o][cid], NormalizedScores[id][cid])
                       /\ ~RealLess(NormalizedScores[id][cid], NormalizedScores[o][cid])}
\* twice the number of strictly smaller scores plus the number of equal ones
TwiceCredit(id, cid) ==
    2 * Cardinality(StrictlySmaller(id, cid)) + Cardinality(EquallyScored(id, cid))
EntryIds(entries) == {entries[k].constraintId : k \in 1..Len(entries)}
PassedConstraintIds == {analysisArgs.constraints[j].id : j \in 1..Len(analysisArgs.constraints)}

\* C12: in a successful analyzeTradeOffs call the percentile rank of an
\* option on a constraint is (number of scored options with a strictly
\* smaller normalized score + 0.5 x number with an equal one, itself
\* included) / N, N the number of scored options; the constraint is among
\* the option's strengths exactly when that value is >= 0.75 and among its
\* weaknesses exactly when it is <= 0.25, and every entry reports that value,
\* which lies between 0 and 1.
C12_PercentileRank ==
    AnalysisSucceeded =>
      \A a \in 1..Len(OptionAnalyses) :
        LET analysis == OptionAnalyses[a]
            N == Cardinality(ScoredIds)
        IN /\ \A cid \in PassedConstraintIds :
                /\ cid \in EntryIds(analysis.strengths)
                     <=> 4 * TwiceCredit(analysis.optionId, cid) >= 3 * 2 * N
                /\ cid \in EntryIds(analysis.weaknesses)
                     <=> 4 * TwiceCredit(analysis.optionId, cid) <= 2 * N
           /\ \A entries \in {analysis.strengths, analysis.weaknesses} :
                \A k \in 1..Len(entries) :
                  /\ entries[k].percentileRank.twice
                       = TwiceCredit(analysis.optionId, entries[k].constraintId)
                  /\ entries[k].percentileRank.len = N
                  /\ 0 <= entries[k].percentileRank.twice
                  /\ entries[k].percentileRank.twice <= 2 * N

\* C12's case: four options were scored, and two that tie on a constraint
\* have it as a strength at exactly 0.75 while two that tie below them have
\* it as a weakness at exactly 0.25.
C12_TiedStrengthAndWeakness ==
    /\ AnalysisSucceeded
    /\ Cardinality(ScoredIds) = 4
    /\ \E a, b \in 1..Len(OptionAnalyses) :
         /\ \E k \in 1..Len(OptionAnalyses[a].strengths) :
              OptionAnalyses[a].strengths[k].percentileRank = [twice |-> 6, len |-> 4]
         /\ \E k \in 1..Len(OptionAnalyses[b].weaknesses) :
              OptionAnalyses[b].weaknesses[k].percentileRank = [twice |-> 2, len |-> 4]


(***************************************************************************)
(* Failures of analyzeTradeOffs                                            *)
(***************************************************************************)
Analyzed == pc = "analyzed"
PassedScoringResult == ScoringArgOf(analysisArgs.scoringResult)
PassedConstraints == analysisArgs.constraints
ScoringResultUnusable ==
    ~PassedScoringResult.defined \/ "rankings" \notin DOMAIN PassedScoringResult.value
RankedIds == {options[Rankings[k].option].id : k \in 1..Len(Rankings)}
ExpectedAnalysisFailure ==
    IF ScoringResultUnusable THEN "INVALID_SCORING_RESULT"
    ELSE IF Len(Passed) < 2 THEN "INSUFFICIENT_OPTIONS"
    ELSE IF Len(PassedConstraints) = 0 THEN "NO_CONSTRAINTS"
    ELSE IF \E i \in 1..Len(Passed) : Passed[i].id \notin RankedIds
         THEN "MISSING_SCORING_DATA"
    ELSE "none"

\* C13: analyzeTradeOffs returns a failure and no analysis with code
\* INVALID_SCORING_RESULT when the scoring result is absent or has no
\* rankings, else INSUFFICIENT_OPTIONS when fewer than 2 options are passed,
\* else NO_CONSTRAINTS when no constraint is passed, else
\* MISSING_SCORING_DATA when some passed option id does not occur in the
\* scoring result's rankings; otherwise it succeeds.
C13_AnalysisFailures ==
    Analyzed =>
      IF ExpectedAnalysisFailure = "none" THEN analysisResult.success
      ELSE /\ ~analysisResult.success
           /\ "data" \notin DOMAIN analysisResult
           /\ analysisResult.error.code = ExpectedAnalysisFailure

\* C13's case: a call that passes, along with the scored options, one the
\* scoring call never saw has failed with MISSING_SCORING_DATA.
C13_UnscoredOptionReported ==
    /\ Analyzed /\ scoringResult.success
    /\ Len(Passed) = Len(options) + 1 /\ Len(PassedConstraints) > 0
    /\ ~analysisResult.success
    /\ analysisResult.error.code = "MISSING_SCORING_DATA"


(***************************************************************************)
(* The failure codes                                                       *)
(***************************************************************************)
TaxonomyCodes ==
    {"INSUFFICIENT_OPTIONS", "NO_CONSTRAINTS", "MISSING_SCORE", "INVALID_WEIGHT",
     "INVALID_SCORING_RESULT", "MISSING_SCORING_DATA", "CALCULATION_ERROR"}
\* the codes of the two operations' validations and catch clauses
EmittedCodes == TaxonomyCodes \cup {"INVALID_SCORE", "ANALYSIS_ERROR"}
IsFailure(result) ==
    /\ DOMAIN result = {"success", "error"}
    /\ ~result.success
    /\ DOMAIN result.error = {"field", "code"}
IsSuccess(result) == DOMAIN result = {"success", "data"} /\ result.success
ScoringFailed == Scored /\ ~scoringResult.success
AnalysisFailed == Analyzed /\ ~analysisResult.success

Rescored == pc = "rescored"
ComputedFields ==
    {"rankings", "normalizedScores", "weightedScores", "closenessScores",
     "idealSolution", "negativeIdealSolution"}
SameComputedFields ==
    /\ secondResult.success = scoringResult.success
    /\ IF scoringResult.success
       THEN \A field \in ComputedFields :
              secondResult.data[field] = scoringResult.data[field]
       ELSE secondResult.error = scoringResult.error

\* C15 (as stated): a second calculateScores call on the same options and
\* constraints returns a result equal to the first one in every field,
\* whatever calls were made on the engine between the two.
C15_IdenticalResults == Rescored => secondResult = scoringResult

\* C15's case: setMethodology was called between two successful scoring
\* calls on the same arguments, and the two results differ in
\* scoringMethodology.
C15_MethodologyChangedBetween ==
    /\ Rescored
    /\ scoringResult.success /\ secondResult.success
    /\ scoringResult.data.scoringMethodology = DefaultMethodology
    /\ secondResult.data.scoringMethodology.distanceMetric = "manhattan"
    /\ SameComputedFields

\* What holds of the code: the two results agree in every computed field,
\* and in scoringMethodology unless setMethodology changed it in between.
C15_IdenticalComputedFields ==
    Rescored =>
      /\ SameComputedFields
      /\ methodology = DefaultMethodology => secondResult = scoringResult


(***************************************************************************)
(* The returned ScoringResult and the caller's objects                     *)
(***************************************************************************)
\* The ScoringResult as its holder reads it: rankings[k].option is the
\* caller's Option object, read where it now stands.
ObservedResult ==
    IF ~scoringResult.success THEN scoringResult
    ELSE [scoringResult EXCEPT !.data.rankings =
            [k \in 1..Len(Rankings) |->
               [Rankings[k] EXCEPT !.option = options[Rankings[k].option]]]]

\* C16 (as stated): when the caller writes to an input option after
\* calculateScores has returned, no part of the returned ScoringResult,
\* its rankings entries included, changes.
C16_ResultUnaffectedByCaller ==
    [][pc = "scored" /\ pc' = "mutated" => ObservedResult' = ObservedResult]_vars

\* C16's case: the caller has renamed an option after a successful scoring
\* call, and the ranking entry of that option in the result returned
\* earlier reads the new name.
C16_RankingReadsNewName ==
    /\ pc = "mutated"
    /\ scoringResult.success
    /\ \E k \in 1..Len(Rankings) : ObservedResult.data.rankings[k].option.name = "renamed"

\* What holds of the code: every part of the result other than the option
\* objects of the rankings is unaffected by the caller's write.
C16_OtherPartsUnaffected ==
    [][pc = "scored" /\ pc' = "mutated" => scoringResult' = scoringResult]_vars


(***************************************************************************)
(* The weighted matrix                                                     *)
(***************************************************************************)
RECURSIVE WeightSum(_, _)
WeightSum(cons, j) == IF j = 0 THEN 0 ELSE WeightSum(cons, j - 1) + cons[j].weight.v
OrdinaryWeights == \A j \in 1..Len(constraints) : constraints[j].weight.e = 0
TotalWeight == WeightSum(constraints, Len(constraints))
\* a = b for two values of the same radical and exponent
RealEqual(a, b) == a.rad = b.rad /\ a.e = b.e /\ a.num * b.den = b.num * a.den
\* normalized * weight / base
Proportion(normalized, weight, base) ==
    [num |-> normalized.num * weight.v, den |-> normalized.den * base,
     rad |-> normalized.rad, e |-> weight.e]
WeightedScores == scoringResult.data.weightedScores
Cells == {<<options[i].id, constraints[j]>> : i \in 1..Len(options), j \in 1..Len(constraints)}

\* C17 (as stated), for weights of ordinary magnitude whose sum is not 0:
\* every entry of the weighted matrix of a successful calculateScores call
\* is N[i][j] x weight_j / (sum of the weights) when the weights do not sum
\* to 100, and N[i][j] x weight_j / 100 when they do.
C17_WeightsRenormalized ==
    ScoringSucceeded /\ OrdinaryWeights /\ TotalWeight # 0 =>
      \A cell \in Cells :
        RealEqual(WeightedScores[cell[1]][cell[2].id],
                  Proportion(NormalizedScores[cell[1]][cell[2].id], cell[2].weight,
                             TotalWeight))

\* C17's case: the only weight is 1, and the weighted entry of an option
\* with a non-zero score is N / 100, not N.
C17_WeightedByHundredth ==
    /\ ScoringSucceeded
    /\ Len(constraints) = 1 /\ constraints[1].weight = Fin(1)
    /\ \E i \in 1..Len(options) :
         LET normalized == NormalizedScores[options[i].id]["c1"]
             weighted == WeightedScores[options[i].id]["c1"]
         IN /\ normalized.num # 0
            /\ RealEqual(weighted, Proportion(normalized, Fin(1), PercentBase))
            /\ ~RealEqual(weighted, Proportion(normalized, Fin(1), 1))

\* What holds of the code: every entry is N[i][j] x weight_j / 100, whatever
\* the weights sum to.
C17_WeightedByPercent ==
    ScoringSucceeded /\ OrdinaryWeights =>
      \A cell \in Cells :
        RealEqual(WeightedScores[cell[1]][cell[2].id],
                  Proportion(NormalizedScores[cell[1]][cell[2].id], cell[2].weight,
                             PercentBase))


(***************************************************************************)
(* The strength and weakness tags of the rankings                          *)
(***************************************************************************)
Negated(number) == [number EXCEPT !.v = -number.v]
MinimizedIds == {constraints[j].id : j \in {l \in 1..Len(constraints) :
                                              constraints[l].direction = "minimize"}}
\* The same decision problem with every minimize constraint turned into a
\* maximize constraint over the scores in reverse order (negated).
MirroredOptions ==
    [i \in 1..Len(options) |->
       [options[i] EXCEPT !.scores =
          [cid \in DOMAIN options[i].scores |->
             IF cid \in MinimizedIds THEN Negated(options[i].scores[cid])
             ELSE options[i].scores[cid]]]]
MirroredConstraints ==
    [j \in 1..Len(constraints) |-> [constraints[j] EXCEPT !.direction = "maximize"]]
TagsOf(rankings, i) ==
    LET ranking == rankings[CHOOSE k \in 1..Len(rankings) : rankings[k].option = i]
    IN [strengthAreas |-> ranking.strengthAreas, weaknessAreas |-> ranking.weaknessAreas]

\* C18 (as stated): the strength and weakness tags of the rankings are
\* direction-aware, so that every option gets the same tags as in the
\* problem where each minimize constraint is a maximize constraint over the
\* values in reverse order.
C18_MinimizeMirrorsMaximize ==
    ScoringSucceeded =>
      LET mirrored == calculateScores(MirroredOptions, MirroredConstraints)
      IN \A i \in 1..Len(options) :
           TagsOf(Rankings, i) = TagsOf(mirrored.data.rankings, i)

\* C18's case: of two options under one minimize constraint of weight 1,
\* the better one (score 0) has no strength tag and the worse one (score 1)
\* has the weakness tag, while in the mirrored problem the better one has
\* the strength tag and the worse one no weakness tag.
C18_BestOfMinimizeUntagged ==
    /\ ScoringSucceeded
    /\ Len(options) = 2 /\ Len(constraints) = 1
    /\ constraints[1].direction = "minimize" /\ constraints[1].weight = Fin(1)
    /\ options[1].scores["c1"] = Fin(0) /\ options[2].scores["c1"] = Fin(1)
    /\ TagsOf(Rankings, 1) = [strengthAreas |-> <<>>, weaknessAreas |-> <<>>]
    /\ TagsOf(Rankings, 2) = [strengthAreas |-> <<>>, weaknessAreas |-> <<"c1">>]
    /\ LET mirrored == calculateScores(MirroredOptions, MirroredConstraints)
       IN /\ TagsOf(mirrored.data.rankings, 1)
               = [strengthAreas |-> <<"c1">>, weaknessAreas |-> <<>>]
          /\ TagsOf(mirrored.data.rankings, 2)
               = [strengthAreas |-> <<>>, weaknessAreas |-> <<>>]

\* What holds of the code: under maximize constraints only, an option has
\* the strength tag of a constraint exactly when (number of strictly smaller
\* weighted values + 1) / N >= 0.75 and the weakness tag exactly when that
\* number is <= 0.25.
C18_MaximizeTags ==
    ScoringSucceeded /\ MinimizedIds = {} =>
      \A i \in 1..Len(options), j \in 1..Len(constraints) :
        LET smaller == Cardinality({l \in 1..Len(options) :
                         RealLess(WeightedScores[options[l].id][constraints[j].id],
                                  WeightedScores[options[i].id][constraints[j].id])})
            tags == TagsOf(Rankings, i)
            Has(names) == \E k \in 1..Len(names) : names[k] = constraints[j].name
        IN /\ Has(tags.strengthAreas) <=> 4 * (smaller + 1) >= 3 * Len(options)
           /\ Has(tags.weaknessAreas) <=> 4 * (smaller + 1) <= Len(options)


(***************************************************************************)
(* Dominance relations                                                     *)
(***************************************************************************)
DominanceRelations == analysisResult.data.dominanceRelations
PassedIds == {Passed[i].id : i \in 1..Len(Passed)}
PassedOption(id) == Passed[CHOOSE i \in 1..Len(Passed) : Passed[i].id = id]
\* a is at least as good as b, and better than b, on constraint c
AtLeastAsGood(a, b, c) ==
    IF c.direction = "maximize"
    THEN ScoresGetOrZero(a, c.id) >= ScoresGetOrZero(b, c.id)
    ELSE ScoresGetOrZero(a, c.id) <= ScoresGetOrZero(b, c.id)
Better(a, b, c) == ~AtLeastAsGood(b, a, c)
ParetoDominates(a, b) ==
    /\ \A j \in 1..Len(PassedConstraints) : AtLeastAsGood(a, b, PassedConstraints[j])
    /\ \E j \in 1..Len(PassedConstraints) : Better(a, b, PassedConstraints[j])
DominatesIds(idA, idB) == idA # idB /\ ParetoDominates(PassedOption(idA), PassedOption(idB))

\* C19: in a successful analysis dominanceMatrix records A -> B exactly
\* when A is never worse than B on any constraint (by the raw scores, in
\* the constraint's direction) and better on at least one; dominantOptions,
\* dominatedOptions and paretoFrontier are exactly the passed options that
\* dominate some other, are dominated by some other, and are dominated by
\* none, so paretoFrontier and dominatedOptions are disjoint and together
\* hold every passed option.
C19_DominanceRelations ==
    AnalysisSucceeded =>
      /\ DOMAIN DominanceRelations.dominanceMatrix = PassedIds
      /\ \A a, b \in PassedIds :
           b \in IdsIn(DominanceRelations.dominanceMatrix[a]) <=> DominatesIds(a, b)
      /\ IdsIn(DominanceRelations.dominantOptions)
           = {a \in PassedIds : \E b \in PassedIds : DominatesIds(a, b)}
      /\ IdsIn(DominanceRelations.dominatedOptions)
           = {b \in PassedIds : \E a \in PassedIds : DominatesIds(a, b)}
      /\ IdsIn(DominanceRelations.paretoFrontier)
           = {b \in PassedIds : \A a \in PassedIds : ~DominatesIds(a, b)}
      /\ IdsIn(DominanceRelations.paretoFrontier)
           \cap IdsIn(DominanceRelations.dominatedOptions) = {}
      /\ IdsIn(DominanceRelations.paretoFrontier)
           \cup IdsIn(DominanceRelations.dominatedOptions) = PassedIds

\* C19's case: with a minimize and a maximize constraint, A and C each
\* dominate B and neither dominates the other.
C19_TwoDominateOne ==
    /\ AnalysisSucceeded
    /\ Len(Passed) = 3 /\ Len(PassedConstraints) = 2
    /\ PassedConstraints[1].direction = "minimize"
    /\ PassedConstraints[2].direction = "maximize"
    /\ DominanceRelations.dominantOptions = <<"A", "C">>
    /\ DominanceRelations.dominatedOptions = <<"B">>
    /\ DominanceRelations.paretoFrontier = <<"A", "C">>
    /\ DominanceRelations.dominanceMatrix["A"] = <<"B">>


(***************************************************************************)
(* Pairwise comparisons                                                    *)
(***************************************************************************)
PairwiseComparisons == analysisResult.data.pairwiseComparisons
Magnitude(a, b) == IF Abs(a) >= Abs(b) THEN Abs(a) ELSE Abs(b)
EntriesFor(comparison, cid) ==
    {k \in 1..Len(comparison.significantDifferences) :
       comparison.significantDifferences[k].constraintId = cid}

\* C20: for every compared pair and every constraint, percentageDifference
\* is |rawA - rawB| / max(|rawA|, |rawB|), and 0 when both raw scores are
\* 0; the constraint is in significantDifferences exactly when
\* percentageDifference > 0.15, labelled high exactly when it is > 0.30 and
\* medium otherwise; no entry is labelled low.
C20_SignificantDifferences ==
    AnalysisSucceeded =>
      \A p \in 1..Len(PairwiseComparisons) :
        LET comparison == PairwiseComparisons[p]
        IN \A j \in 1..Len(PassedConstraints) :
             LET cid == PassedConstraints[j].id
                 rawA == ScoresGetOrZero(PassedOption(comparison.optionA), cid)
                 rawB == ScoresGetOrZero(PassedOption(comparison.optionB), cid)
                 difference == Abs(rawA - rawB)
                 magnitude == Magnitude(rawA, rawB)
                 entries == EntriesFor(comparison, cid)
             IN /\ Cardinality(entries) <= 1
                /\ entries # {} <=> magnitude > 0 /\ 100 * difference > 15 * magnitude
                /\ \A k \in entries :
                     LET entry == comparison.significantDifferences[k]
                     IN /\ entry.percentageDifference.n * magnitude
                             = difference * entry.percentageDifference.d
                        /\ entry.significance
                             = IF 100 * difference > 30 * magnitude THEN "high" ELSE "medium"

\* C20's case: a pair of options whose raw scores are 3 and 4 on one
\* constraint and equal on another: the first is reported as a medium
\* difference of 1/4, the second is not reported.
C20_MediumDifference ==
    /\ AnalysisSucceeded
    /\ \E p \in 1..Len(PairwiseComparisons) :
         LET differences == PairwiseComparisons[p].significantDifferences
         IN /\ Len(differences) = 1 /\ Len(PassedConstraints) = 2
            /\ differences[1].significance = "medium"
            /\ differences[1].percentageDifference = Rat(1, 4)


(***************************************************************************)
(* The compromise and avoid recommendations                                *)
(***************************************************************************)
RecommendationsOfType(type) ==
    {k \in 1..Len(Recommendations) : Recommendations[k].type = type}
AnalysisOf(id) ==
    OptionAnalyses[CHOOSE a \in 1..Len(OptionAnalyses) : OptionAnalyses[a].optionId = id]
\* the frontier options whose rank is not 1
CompromiseCandidates ==
    {id \in IdsIn(DominanceRelations.paretoFrontier) : ScoringRankOf(id) # 1}
\* the dominated options with at least two weaknesses
AvoidCandidates ==
    {id \in IdsIn(DominanceRelations.dominatedOptions) : Len(AnalysisOf(id).weaknesses) >= 2}

\* C21: a successful analysis holds a compromise recommendation exactly
\* when some option of the Pareto frontier has a rank other than 1, holds
\* at most one, and its target is the such option of the smallest rank
\* number.
C21_Compromise ==
    AnalysisSucceeded =>
      /\ Cardinality(RecommendationsOfType("compromise")) =
           IF CompromiseCandidates = {} THEN 0 ELSE 1
      /\ \A k \in RecommendationsOfType("compromise") :
           /\ Recommendations[k].optionId \in CompromiseCandidates
           /\ \A id \in CompromiseCandidates :
                ScoringRankOf(Recommendations[k].optionId) <= ScoringRankOf(id)

\* C21's case: the options of rank 2 and rank 3 are both on the frontier,
\* and the compromise names the one of rank 2.
C21_CompromiseAmongTwo ==
    /\ AnalysisSucceeded
    /\ Len(Passed) = 3
    /\ Cardinality(CompromiseCandidates) = 2
    /\ \E k \in RecommendationsOfType("compromise") :
         ScoringRankOf(Recommendations[k].optionId) = 2

\* C22: a successful analysis holds an avoid recommendation exactly when
\* some dominated option has at least 2 weaknesses, holds at most one, and
\* its target is the such option of the largest rank number.
C22_Avoid ==
    AnalysisSucceeded =>
      /\ Cardinality(RecommendationsOfType("avoid")) =
           IF AvoidCandidates = {} THEN 0 ELSE 1
      /\ \A k \in RecommendationsOfType("avoid") :
           /\ Recommendations[k].optionId \in AvoidCandidates
           /\ \A id \in AvoidCandidates :
                ScoringRankOf(Recommendations[k].optionId) >= ScoringRankOf(id)

\* C22's case: two dominated options have two weaknesses each, and the
\* avoid recommendation names the one of rank 4.
C22_AvoidAmongTwo ==
    /\ AnalysisSucceeded
    /\ Len(Passed) = 4
    /\ Cardinality(AvoidCandidates) = 2
    /\ \E k \in RecommendationsOfType("avoid") :
         ScoringRankOf(Recommendations[k].optionId) = 4


(***************************************************************************)
(* best_overall against avoid                                              *)
(***************************************************************************)
SameListsAnalysed ==
    AnalysisSucceeded /\ Passed = options /\ PassedConstraints = constraints
PositiveOrdinaryWeights ==
    \A j \in 1..Len(constraints) :
      constraints[j].weight.e = 0 /\ constraints[j].weight.v > 0

\* C23 (as stated): when the options and constraints that calculateScores
\* accepted are analysed with its result, no option is the target of both
\* the best_overall and the avoid recommendation.
C23_BestOverallNotAvoided ==
    SameListsAnalysed =>
      \A b \in RecommendationsOfType("best_overall"), a \in RecommendationsOfType("avoid") :
        Recommendations[b].optionId # Recommendations[a].optionId

\* C23's case: both weights are 0, A scores 0 and B scores 1 on both
\* constraints (to maximize); all closeness scores tie, A is rank 1 by
\* input order, is dominated by B and has two weaknesses, and is named by
\* both best_overall and avoid.
C23_BestOverallAvoided ==
    /\ SameListsAnalysed
    /\ Len(options) = 2 /\ Len(constraints) = 2
    /\ \A j \in 1..2 : constraints[j].weight = Fin(0) /\ constraints[j].direction = "maximize"
    /\ \A cid \in {"c1", "c2"} : options[1].scores[cid] = Fin(0) /\ options[2].scores[cid] = Fin(1)
    /\ \E b \in RecommendationsOfType("best_overall"), a \in RecommendationsOfType("avoid") :
         Recommendations[b].optionId = "A" /\ Recommendations[a].optionId = "A"

\* What holds of the code: the two targets differ when every weight is
\* positive and of ordinary magnitude.
C23_DistinctUnderPositiveWeights ==
    SameListsAnalysed /\ PositiveOrdinaryWeights =>
      \A b \in RecommendationsOfType("best_overall"), a \in RecommendationsOfType("avoid") :
        Recommendations[b].optionId # Recommendations[a].optionId


(***************************************************************************)
(* C24: ranking under a single criterion to maximize                       *)
(***************************************************************************)
\* x < y for two finite scores v * 10^e
ScoreLess(x, y) ==
    LET sx == Sign(x.v)
        sy == Sign(y.v)
        absLess == x.e < y.e \/ (x.e = y.e /\ Abs(x.v) < Abs(y.v))
        absMore == x.e > y.e \/ (x.e = y.e /\ Abs(x.v) > Abs(y.v))
    IN IF sx # sy THEN sx < sy
       ELSE IF sx = 0 THEN FALSE
       ELSE IF sx > 0 THEN absLess ELSE absMore
\* the rank that rankings gives the i-th option of the scored list
RankOfInput(i) ==
    Rankings[CHOOSE k \in 1..Len(Rankings) : Rankings[k].option = i].rank
SingleMaximize ==
    /\ ScoringSucceeded
    /\ Len(constraints) = 1
    /\ constraints[1].direction = "maximize"
RankedByRawScore ==
    \A a, b \in 1..Len(options) :
      ScoreLess(options[b].scores[constraints[1].id], options[a].scores[constraints[1].id])
        => RankOfInput(a) < RankOfInput(b)

\* C24 (as stated): when calculateScores succeeds on a single criterion to
\* maximize that carries the whole weight of 100, an option with a strictly
\* higher raw score on it has a strictly smaller rank number.
C24_HigherScoreBetterRank ==
    SingleMaximize /\ constraints[1].weight = Fin(100) => RankedByRawScore

\* C24's case: under one criterion of weight 100 to maximize, A scores 1 and
\* B scores 10^300; the column's sum of squares is Infinity, both normalized
\* scores are 0, the closeness scores tie at 1.0 and A, the first input,
\* is rank 1 ahead of B.
C24_HigherScoreRankedSecond ==
    /\ SingleMaximize /\ constraints[1].weight = Fin(100)
    /\ Len(options) = 2
    /\ options[1].scores["c1"] = Fin(1) /\ options[2].scores["c1"] = Extreme
    /\ RankOfInput(1) = 1 /\ RankOfInput(2) = 2
    /\ ClosenessEqual(Rankings[1].closenessScore, Rankings[2].closenessScore)

\* What holds of the code: under a positive weight of ordinary magnitude,
\* scores of magnitude 10^0 are ranked in descending order.
C24_OrdinaryScoresRanked ==
    /\ SingleMaximize
    /\ constraints[1].weight.e = 0 /\ constraints[1].weight.v > 0
    /\ OrdinaryScores(options)
    => RankedByRawScore


(***************************************************************************)
(* C25: the supplier selection example                                     *)
(***************************************************************************)
SupplierScored ==
    Scored /\ options = SupplierOptions /\ constraints = SupplierConstraints
\* c > 3/5 for c = sqrt(neg) / (sqrt(neg) + sqrt(pos)): 2 sqrt(neg) > 3 sqrt(pos)
AboveThreeFifths(c) == ~IsNaNCloseness(c) /\ CrossSign(c.neg, c.pos, 9, 4) > 0

\* C25: on the supplier selection example (cost to minimize with weight 30,
\* quality, delivery and service to maximize with weights 40, 20 and 10;
\* A = (250, 16, 8.5, 5), B = (200, 16, 9.0, 4), C = (300, 32, 7.0, 4))
\* calculateScores succeeds and ranks C first, B second and A third, with
\* closeness(C) > closeness(B) > closeness(A) and closeness(C) > 0.6.
C25_SupplierExample ==
    SupplierScored =>
      /\ scoringResult.success
      /\ Len(Rankings) = 3
      /\ options[Rankings[1].option].id = "supplier_c"
      /\ options[Rankings[2].option].id = "supplier_b"
      /\ options[Rankings[3].option].id = "supplier_a"
      /\ \A k \in 1..3 : Rankings[k].rank = k
      /\ ClosenessGreater(Rankings[1].closenessScore, Rankings[2].closenessScore)
      /\ ClosenessGreater(Rankings[2].closenessScore, Rankings[3].closenessScore)
      /\ AboveThreeFifths(Rankings[1].closenessScore)

\* C25's case: the example has been scored, and supplier C, the last input,
\* is at the head of the rankings.
C25_SupplierCFirst ==
    /\ pc = "scored" /\ SupplierScored
    /\ scoringResult.success
    /\ Rankings[1].option = 3 /\ Rankings[1].rank = 1


(***************************************************************************)
(* OptionManager, ConstraintManager and RefereeSystem.  A stored weight is *)
(* kept exactly, as a rational [n, d]; rounding is not modelled.           *)
(***************************************************************************)
MAX_OPTIONS == 5
Returned(result) == createSuccess(result)
Void == createSuccess("undefined")

\* OptionManager.validateOption: the errors pushed, in order (ids and names
\* are well-formed in every call of this model)
ManagerValidateOption(option) ==
    Flatten([k \in 1..Len(ConstraintIds) |->
               IF ScoresHas(option, ConstraintIds[k])
                  /\ ~IsFiniteNumber(option.scores[ConstraintIds[k]])
               THEN <<createValidationError("scores", "INVALID_SCORE")>>
               ELSE <<>>])

HasId(stored, id) == \E i \in 1..Len(stored) : stored[i].id = id

\* OptionManager.addOption
addOption(stored, option) ==
    LET validation == ManagerValidateOption(option)
    IN IF validation # <<>>
       THEN [options |-> stored, result |-> createError(validation[1])]
       ELSE IF Len(stored) >= MAX_OPTIONS
       THEN [options |-> stored,
             result |-> createError(createValidationError("options", "MAX_OPTIONS_EXCEEDED"))]
       ELSE IF HasId(stored, option.id)
       THEN [options |-> stored,
             result |-> createError(createValidationError("id", "DUPLICATE_ID"))]
       ELSE [options |-> Append(stored, option), result |-> Void]

\* this.options.delete(optionId), this.constraints.delete(constraintId)
MapDelete(stored, id) == SelectSeq(stored, LAMBDA x : x.id # id)

\* RefereeSystem.removeOption
removeOption(stored, optionId) ==
    IF HasId(stored, optionId)
    THEN [options |-> MapDelete(stored, optionId), result |-> Void]
    ELSE [options |-> stored,
          result |-> createError(createValidationError("option", "OPTION_NOT_FOUND"))]

\* OptionManager.updateOption with updates = { name }
updateOption(stored, optionId, name) ==
    IF ~HasId(stored, optionId)
    THEN [options |-> stored,
          result |-> createError(createValidationError("id", "OPTION_NOT_FOUND"))]
    ELSE [options |-> [i \in 1..Len(stored) |->
                         IF stored[i].id = optionId THEN [stored[i] EXCEPT !.name = name]
                         ELSE stored[i]],
          result |-> Void]

\* typeof weight !== 'number' || isNaN(weight) || weight < 0
ManagerInvalidWeight(weight) == weight.k = "nan" \/ weight.v < 0

\* ConstraintManager.validateConstraint: the errors pushed, in order (ids,
\* names, types, directions and scales are well-formed in every call of
\* this model)
ManagerValidateConstraint(constraint) ==
    IF ManagerInvalidWeight(constraint.weight)
    THEN <<createValidationError("weight", "INVALID_WEIGHT")>>
    ELSE <<>>

\* the weight of a request as it is stored
StoredWeight(weight) == Rat(weight.v, 1)

\* ConstraintManager.addConstraint
addConstraint(stored, constraint) ==
    LET validation == ManagerValidateConstraint(constraint)
    IN IF validation # <<>>
       THEN [constraints |-> stored, result |-> createError(validation[1])]
       ELSE IF HasId(stored, constraint.id)
       THEN [constraints |-> stored,
             result |-> createError(createValidationError("id", "DUPLICATE_ID"))]
       ELSE [constraints |->
               Append(stored, [constraint EXCEPT !.weight = StoredWeight(constraint.weight)]),
             result |-> Void]

\* constraints.reduce((sum, constraint) => sum + constraint.weight, 0)
RECURSIVE StoredWeightSum(_, _)
StoredWeightSum(stored, j) ==
    IF j = 0 THEN RatZero ELSE RatAdd(StoredWeightSum(stored, j - 1), stored[j].weight)

\* ConstraintManager.normalizeWeights
normalizeWeights(stored) ==
    LET totalWeight == StoredWeightSum(stored, Len(stored))
    IN IF totalWeight.n = 0
       THEN [j \in 1..Len(stored) |-> [stored[j] EXCEPT !.weight = Rat(100, Len(stored))]]
       ELSE [j \in 1..Len(stored) |->
               [stored[j] EXCEPT !.weight =
                  Rat(stored[j].weight.n * totalWeight.d * 100,
                      stored[j].weight.d * totalWeight.n)]]

\* ConstraintManager.updateWeight
updateWeight(stored, constraintId, weight) ==
    IF ~HasId(stored, constraintId)
    THEN [constraints |-> stored,
          result |-> createError(createValidationError("id", "CONSTRAINT_NOT_FOUND"))]
    ELSE IF ManagerInvalidWeight(weight)
    THEN [constraints |-> stored,
          result |-> createError(createValidationError("weight", "INVALID_WEIGHT"))]
    ELSE [constraints |->
            normalizeWeights([j \in 1..Len(stored) |->
                                IF stored[j].id = constraintId
                                THEN [stored[j] EXCEPT !.weight = StoredWeight(weight)]
                                ELSE stored[j]]),
          result |-> Void]

\* ConstraintManager.removeConstraint: it returns removed, a boolean
removeConstraint(stored, constraintId) ==
    LET removed == HasId(stored, constraintId)
        rest == MapDelete(stored, constraintId)
    IN [constraints |-> IF removed /\ Len(rest) > 0 THEN normalizeWeights(rest) ELSE rest,
        result |-> Returned(removed)]

\* InputValidator.validateOption, validateConstraint: is the object valid
InputValidOption(option) ==
    \A cid \in DOMAIN option.scores : IsFiniteNumber(option.scores[cid])
InputValidConstraint(constraint) ==
    IsFiniteNumber(constraint.weight) /\ constraint.weight.v >= 0

\* new Set(request.constraints.map(c => c.id)), in insertion order
RECURSIVE DistinctIds(_)
DistinctIds(cons) ==
    IF cons = <<>> THEN <<>>
    ELSE LET front == DistinctIds(SubSeq(cons, 1, Len(cons) - 1))
             id == cons[Len(cons)].id
         IN IF \E k \in 1..Len(front) : front[k] = id THEN front ELSE Append(front, id)

\* RefereeSystem.validateComparisonRequest: the errors pushed, in order
validateComparisonRequest(request) ==
    LET opts == request.options
        cons == request.constraints
        constraintIds == DistinctIds(cons)
    IN (IF Len(opts) < 2
        THEN <<createValidationError("options", "INSUFFICIENT_OPTIONS")>> ELSE <<>>)
       \o (IF Len(opts) > 5
           THEN <<createValidationError("options", "TOO_MANY_OPTIONS")>> ELSE <<>>)
       \o (IF Len(cons) = 0
           THEN <<createValidationError("constraints", "NO_CONSTRAINTS")>> ELSE <<>>)
       \o Flatten([i \in 1..Len(opts) |->
                     IF ~InputValidOption(opts[i])
                     THEN <<createValidationError("options[index]", "INVALID_OPTION")>>
                     ELSE <<>>])
       \o Flatten([j \in 1..Len(cons) |->
                     IF ~InputValidConstraint(cons[j])
                     THEN <<createValidationError("constraints[index]", "INVALID_CONSTRAINT")>>
                     ELSE <<>>])
       \o Flatten([i \in 1..Len(opts) |->
                     Flatten([k \in 1..Len(constraintIds) |->
                                IF ~ScoresHas(opts[i], constraintIds[k])
                                THEN <<createValidationError("options[index].scores",
                                                             "MISSING_SCORE")>>
                                ELSE <<>>])])

\* the loops of setupComparison: each returns at the first failure with
\* what has been stored so far
RECURSIVE AddAllOptions(_, _)
AddAllOptions(stored, rest) ==
    IF rest = <<>> THEN [options |-> stored, result |-> Void]
    ELSE LET r == addOption(stored, Head(rest))
         IN IF ~r.result.success THEN r ELSE AddAllOptions(r.options, Tail(rest))
RECURSIVE AddAllConstraints(_, _)
AddAllConstraints(stored, rest) ==
    IF rest = <<>> THEN [constraints |-> stored, result |-> Void]
    ELSE LET r == addConstraint(stored, Head(rest))
         IN IF ~r.result.success THEN r ELSE AddAllConstraints(r.constraints, Tail(rest))

\* RefereeSystem.setupComparison: reset() leaves two empty managers
setupComparison(opts, cons) ==
    LET added == AddAllOptions(<<>>, opts)
        addedConstraints == AddAllConstraints(<<>>, cons)
    IN IF ~added.result.success
       THEN [options |-> added.options, constraints |-> <<>>, result |-> added.result]
       ELSE IF ~addedConstraints.result.success
       THEN [options |-> added.options, constraints |-> addedConstraints.constraints,
             result |-> addedConstraints.result]
       ELSE [options |-> added.options,
             constraints |-> normalizeWeights(addedConstraints.constraints),
             result |-> Void]

\* RefereeSystem.performComparison on a request without reportFormat, from
\* the stored options and constraints: what is stored afterwards, and the
\* result.  generateReport fails only by an exception, and throws none on
\* a scored and analysed request.
performComparison(storedOptions, storedConstraints, request) ==
    LET validationResult == validateComparisonRequest(request)
        setupResult == setupComparison(request.options, request.constraints)
        scoring == calculateScores(request.options, request.constraints)
        analysis == analyzeTradeOffs(request.options, Defined(scoring.data),
                                     request.options, request.constraints)
        after(result) == [options |-> setupResult.options,
                          constraints |-> setupResult.constraints, result |-> result]
    IN IF validationResult # <<>>
       THEN [options |-> storedOptions, constraints |-> storedConstraints,
             result |-> createError(validationResult[1])]
       ELSE IF ~setupResult.result.success THEN setupResult
       ELSE IF ~scoring.success
       THEN after(createError(createValidationError("scoring", "SCORING_ERROR")))
       ELSE IF ~analysis.success
       THEN after(createError(createValidationError("analysis", "ANALYSIS_ERROR")))
       ELSE after(Returned("report"))

(***************************************************************************)
(* The calls of a RefereeSystem's user                                     *)
(***************************************************************************)
MaxCalls == 3   \* the number of calls made on one RefereeSystem

SystemOption(id, score) ==
    [id |-> id, name |-> id, scores |-> [c1 |-> score, c2 |-> Fin(1)]]
SystemConstraint(id, weight) ==
    [id |-> id, name |-> id, weight |-> weight, direction |-> "maximize"]
SystemOptionIds == {"A", "B"}
SystemConstraintIds == {"c1", "c2"}
\* The options handed to addOption: finite scores, or a score that is NaN.
SystemOptions ==
    {SystemOption(id, score) : id \in SystemOptionIds, score \in {Fin(0), Fin(1)}}
    \cup {SystemOption("A", NaN)}
\* The constraints handed to addConstraint: weights 0, 1 and -1.
SystemConstraints ==
    {SystemConstraint(id, weight) : id \in SystemConstraintIds,
                                    weight \in {Fin(0), Fin(1), Fin(-1)}}
\* The weights handed to updateConstraintWeight.
SystemWeights == {Fin(0), Fin(3), Fin(-1)}
\* The requests handed to performComparison: no options, two options, two
\* options of one id, an option with a NaN score; no constraints, one, two,
\* two of one id.
RequestOptions ==
    {<<>>,
     <<SystemOption("A", Fin(0)), SystemOption("B", Fin(1))>>,
     <<SystemOption("A", Fin(1)), SystemOption("B", Fin(0))>>,
     <<SystemOption("A", Fin(0)), SystemOption("A", Fin(1))>>,
     <<SystemOption("A", NaN), SystemOption("B", Fin(1))>>}
RequestConstraints ==
    {<<>>,
     <<SystemConstraint("c1", Fin(1))>>,
     <<SystemConstraint("c1", Fin(1)), SystemConstraint("c2", Fin(3))>>,
     <<SystemConstraint("c1", Fin(1)), SystemConstraint("c1", Fin(1))>>}
ComparisonRequests == [options : RequestOptions, constraints : RequestConstraints]

Call(operation, result) == [operation |-> operation, result |-> result]

SystemInit ==
    /\ pc = "idle"
    /\ methodology = DefaultMethodology
    /\ options = <<>>
    /\ constraints = <<>>
    /\ scoringResult = NoResult
    /\ analysisArgs = NoArgs
    /\ analysisResult = NoResult
    /\ secondResult = NoResult
    /\ optionManager = <<>>
    /\ constraintManager = <<>>
    /\ history = <<>>

\* system.addOption(option)
AddOption ==
    /\ Len(history) < MaxCalls
    /\ \E option \in SystemOptions :
         LET r == addOption(optionManager, option)
         IN /\ optionManager' = r.options
            /\ history' = Append(history, Call("addOption", r.result))
    /\ UNCHANGED <<constraintManager, engineVars>>

\* system.removeOption(optionId)
RemoveOption ==
    /\ Len(history) < MaxCalls
    /\ \E optionId \in SystemOptionIds :
         LET r == removeOption(optionManager, optionId)
         IN /\ optionManager' = r.options
            /\ history' = Append(history, Call("removeOption", r.result))
    /\ UNCHANGED <<constraintManager, engineVars>>

\* system.updateOption(optionId, { name: 'renamed' })
UpdateOption ==
    /\ Len(history) < MaxCalls
    /\ \E optionId \in SystemOptionIds :
         LET r == updateOption(optionManager, optionId, "renamed")
         IN /\ optionManager' = r.options
            /\ history' = Append(history, Call("updateOption", r.result))
    /\ UNCHANGED <<constraintManager, engineVars>>

\* system.addConstraint(constraint)
AddConstraint ==
    /\ Len(history) < MaxCalls
    /\ \E constraint \in SystemConstraints :
         LET r == addConstraint(constraintManager, constraint)
         IN /\ constraintManager' = r.constraints
            /\ history' = Append(history, Call("addConstraint", r.result))
    /\ UNCHANGED <<optionManager, engineVars>>

\* system.updateConstraintWeight(constraintId, weight)
UpdateConstraintWeight ==
    /\ Len(history) < MaxCalls
    /\ \E constraintId \in SystemConstraintIds, weight \in SystemWeights :
         LET r == updateWeight(constraintManager, constraintId, weight)
         IN /\ constraintManager' = r.constraints
            /\ history' = Append(history, Call("updateConstraintWeight", r.result))
    /\ UNCHANGED <<optionManager, engineVars>>

\* constraintManager.removeConstraint(constraintId)
RemoveConstraint ==
    /\ Len(history) < MaxCalls
    /\ \E constraintId \in SystemConstraintIds :
         LET r == removeConstraint(constraintManager, constraintId)
         IN /\ constraintManager' = r.constraints
            /\ history' = Append(history, Call("removeConstraint", r.result))
    /\ UNCHANGED <<optionManager, engineVars>>

\* await system.performComparison(request)
PerformComparison ==
    /\ Len(history) < MaxCalls
    /\ \E request \in ComparisonRequests :
         LET r == performComparison(optionManager, constraintManager, request)
         IN /\ optionManager' = r.options
            /\ constraintManager' = r.constraints
            /\ history' = Append(history, Call("performComparison", r.result))
    /\ UNCHANGED engineVars

SystemNext ==
    \/ AddOption
    \/ RemoveOption
    \/ UpdateOption
    \/ AddConstraint
    \/ UpdateConstraintWeight
    \/ RemoveConstraint
    \/ PerformComparison

SystemSpec == SystemInit /\ [][SystemNext]_vars


(***************************************************************************)
(* C26: the stored weights sum to 100                                      *)
(***************************************************************************)
\* system.getConstraints(), system.getOptions()
GetConstraints == constraintManager
GetOptions == optionManager
ConstraintOperations == {"addConstraint", "updateConstraintWeight", "removeConstraint"}
\* the call returned a success (removeConstraint: true)
Succeeded(call) ==
    /\ call.result.success
    /\ call.operation = "removeConstraint" => call.result.data = TRUE
OnlySuccessfulConstraintOperations ==
    /\ Len(history) > 0
    /\ \A k \in 1..Len(history) :
         history[k].operation \in ConstraintOperations /\ Succeeded(history[k])
WeightsSumToHundred ==
    StoredWeightSum(GetConstraints, Len(GetConstraints)) = Rat(100, 1)
LastCall == history[Len(history)]

\* C26 (as stated): after successful addConstraint, updateConstraintWeight
\* and removeConstraint calls that leave at least one constraint stored, the
\* weights of the constraints that getConstraints returns sum to 100.
C26_WeightsSumToHundred ==
    OnlySuccessfulConstraintOperations /\ Len(GetConstraints) >= 1 => WeightsSumToHundred

\* C26's case: one addConstraint call with weight 1 has succeeded, and
\* getConstraints returns that constraint with weight 1.
C26_AddedWeightAsGiven ==
    /\ Len(history) = 1 /\ OnlySuccessfulConstraintOperations
    /\ LastCall.operation = "addConstraint"
    /\ Len(GetConstraints) = 1
    /\ GetConstraints[1].weight = Rat(1, 1)
    /\ ~WeightsSumToHundred

\* What holds of the code: the weights sum to 100 right after a successful
\* updateConstraintWeight or removeConstraint call that leaves a constraint
\* stored, and after a successful performComparison call.
C26_NormalizedByUpdateAndRemove ==
    /\ Len(history) > 0
    /\ LastCall.operation \in {"updateConstraintWeight", "removeConstraint", "performComparison"}
    /\ Succeeded(LastCall)
    /\ Len(GetConstraints) >= 1
    => WeightsSumToHundred


(***************************************************************************)
(* C27: Pareto dominance and closeness                                     *)
(***************************************************************************)
RawScore(i, c) == options[i].scores[c.id]
\* option a is at least as good as, and better than, option b on constraint
\* c, by the raw scores in c's direction
RawAtLeastAsGood(a, b, c) ==
    IF c.direction = "maximize" THEN ~ScoreLess(RawScore(a, c), RawScore(b, c))
    ELSE ~ScoreLess(RawScore(b, c), RawScore(a, c))
RawBetter(a, b, c) == ~RawAtLeastAsGood(b, a, c)
NonNegativeWeights == \A j \in 1..Len(constraints) : constraints[j].weight.v >= 0
\* a Pareto-dominates b and is better on a constraint of positive weight
DominatesWithWeight(a, b) ==
    /\ \A j \in 1..Len(constraints) : RawAtLeastAsGood(a, b, constraints[j])
    /\ \E j \in 1..Len(constraints) :
         RawBetter(a, b, constraints[j]) /\ constraints[j].weight.v > 0
ClosenessOfInput(i) ==
    Rankings[CHOOSE k \in 1..Len(Rankings) : Rankings[k].option = i].closenessScore
CloserAndBetterRanked(a, b) ==
    /\ ClosenessGreater(ClosenessOfInput(a), ClosenessOfInput(b))
    /\ RankOfInput(a) < RankOfInput(b)
\* no weight and no score is of the magnitude at which a product overflows
OrdinaryMagnitudes ==
    /\ \A j \in 1..Len(constraints) : constraints[j].weight.e <= 0
    /\ \A i \in 1..Len(options) : \A cid \in DOMAIN options[i].scores :
         options[i].scores[cid].e <= 0

\* C27 (as stated): when calculateScores succeeds under non-negative
\* weights, an option that Pareto-dominates another and is better on a
\* constraint of positive weight has the strictly higher closeness score
\* and the strictly better rank.
C27_DominatingOptionCloser ==
    ScoringSucceeded /\ NonNegativeWeights =>
      \A a, b \in 1..Len(options) :
        DominatesWithWeight(a, b) => CloserAndBetterRanked(a, b)

\* C27's case: under one constraint to maximize, of weight 10^300, B scores
\* 1 and A scores 0; B dominates A, B's closeness is NaN and B is ranked
\* behind A.
C27_DominatingOptionRankedLast ==
    /\ ScoringSucceeded /\ NonNegativeWeights
    /\ Len(options) = 2 /\ Len(constraints) = 1
    /\ constraints[1].weight = Extreme
    /\ DominatesWithWeight(2, 1)
    /\ IsNaNCloseness(ClosenessOfInput(2))
    /\ RankOfInput(2) = 2

\* What holds of the code: C27 for weights and scores of ordinary
\* magnitude.
C27_DominatingOptionCloserOrdinary ==
    ScoringSucceeded /\ NonNegativeWeights /\ OrdinaryMagnitudes =>
      \A a, b \in 1..Len(options) :
        DominatesWithWeight(a, b) => CloserAndBetterRanked(a, b)


(***************************************************************************)
(* C28: the winner of a pairwise comparison                                *)
(***************************************************************************)
ScoredCloseness(id) == scoringResult.data.closenessScores[id]
WinnerAmongTheTwo(comparison) == comparison.winner \in {comparison.optionA, comparison.optionB}
LoserOf(comparison) ==
    IF comparison.winner = comparison.optionA THEN comparison.optionB ELSE comparison.optionA
WinnerNotWorseRanked(comparison) ==
    ScoringRankOf(comparison.winner) <= ScoringRankOf(LoserOf(comparison))
OnePerPair ==
    /\ 2 * Len(PairwiseComparisons) = Len(Passed) * (Len(Passed) - 1)
    /\ \A i, l \in 1..Len(Passed) :
         i < l => \E p \in 1..Len(PairwiseComparisons) :
                    /\ PairwiseComparisons[p].optionA = Passed[i].id
                    /\ PairwiseComparisons[p].optionB = Passed[l].id

\* C28 (as stated): a successful analysis of N options holds one comparison
\* for each of the N(N-1)/2 pairs; its winner is one of the two options and
\* is never the one with the worse rank in scoringResult.rankings, also when
\* the two closeness scores are equal.
C28_WinnerNotWorseRanked ==
    AnalysisSucceeded =>
      /\ OnePerPair
      /\ \A p \in 1..Len(PairwiseComparisons) :
           /\ WinnerAmongTheTwo(PairwiseComparisons[p])
           /\ WinnerNotWorseRanked(PairwiseComparisons[p])

\* C28's case: A and B have equal closeness scores, A holds rank 1 and B
\* rank 2, and the comparison of A with B names B the winner.
C28_TieWonByWorseRanked ==
    /\ AnalysisSucceeded
    /\ Len(Passed) = 2 /\ Passed = options
    /\ ClosenessEqual(ScoredCloseness("A"), ScoredCloseness("B"))
    /\ ScoringRankOf("A") = 1 /\ ScoringRankOf("B") = 2
    /\ Len(PairwiseComparisons) = 1
    /\ PairwiseComparisons[1].optionA = "A" /\ PairwiseComparisons[1].optionB = "B"
    /\ PairwiseComparisons[1].winner = "B"

\* What holds of the code: one comparison per pair, the winner is one of
\* the two, it is optionA exactly when optionA's closeness is the greater
\* number, and it is not the worse ranked when the closeness scores differ.
C28_WinnerByGreaterCloseness ==
    AnalysisSucceeded =>
      /\ OnePerPair
      /\ \A p \in 1..Len(PairwiseComparisons) :
           LET comparison == PairwiseComparisons[p]
               scoreA == ScoredCloseness(comparison.optionA)
               scoreB == ScoredCloseness(comparison.optionB)
           IN /\ WinnerAmongTheTwo(comparison)
              /\ comparison.winner = comparison.optionA <=> ClosenessGreater(scoreA, scoreB)
              /\ ClosenessGreater(scoreA, scoreB) \/ ClosenessGreater(scoreB, scoreA)
                   => WinnerNotWorseRanked(comparison)


(***************************************************************************)
(* C29: the best and the worst option of a constraint                      *)
(***************************************************************************)
\* option i is better, and worse, than every other analysed option on c
StrictlyBestOn(i, c) == \A l \in 1..Len(options) : l # i => RawBetter(i, l, c)
StrictlyWorstOn(i, c) == \A l \in 1..Len(options) : l # i => RawBetter(l, i, c)
WeaknessIds(i) == EntryIds(AnalysisOf(options[i].id).weaknesses)
StrengthIds(i) == EntryIds(AnalysisOf(options[i].id).strengths)
BestNotWeakWorstNotStrong(i, c) ==
    /\ StrictlyBestOn(i, c) => c.id \notin WeaknessIds(i)
    /\ StrictlyWorstOn(i, c) => c.id \notin StrengthIds(i)

\* C29 (as stated): in the analysis of the scored options, an option that
\* is strictly the best on a constraint (the lowest raw score to minimize,
\* the highest to maximize) does not have the constraint among its
\* weaknesses, and one that is strictly the worst does not have it among
\* its strengths.
C29_BestNotWeakWorstNotStrong ==
    SameListsAnalysed =>
      \A i \in 1..Len(options), j \in 1..Len(constraints) :
        BestNotWeakWorstNotStrong(i, constraints[j])

\* C29's case: c1 is to minimize, A scores 0 and B scores 1 on it; A, the
\* best on c1, has c1 among its weaknesses, and B, the worst, has c1 among
\* its strengths.
C29_BestOfMinimizeIsWeakness ==
    /\ SameListsAnalysed
    /\ Len(options) = 2 /\ Len(constraints) = 1
    /\ constraints[1].direction = "minimize"
    /\ options[1].scores["c1"] = Fin(0) /\ options[2].scores["c1"] = Fin(1)
    /\ StrictlyBestOn(1, constraints[1]) /\ "c1" \in WeaknessIds(1)
    /\ StrictlyWorstOn(2, constraints[1]) /\ "c1" \in StrengthIds(2)

\* What holds of the code: C29 on the constraints to maximize; on those to
\* minimize the strictly best option (of two or more) always has the
\* constraint among its weaknesses.
C29_MaximizeOnly ==
    SameListsAnalysed =>
      \A i \in 1..Len(options), j \in 1..Len(constraints) :
        IF constraints[j].direction = "maximize"
        THEN BestNotWeakWorstNotStrong(i, constraints[j])
        ELSE StrictlyBestOn(i, constraints[j]) => constraints[j].id \in WeaknessIds(i)


(***************************************************************************)
(* C30: a failed performComparison call                                    *)
(***************************************************************************)
\* the step is a performComparison call that returns a failure
ComparisonFails ==
    /\ history' # history
    /\ history'[Len(history')].operation = "performComparison"
    /\ ~history'[Len(history')].result.success
StoredUnchanged == GetOptions' = GetOptions /\ GetConstraints' = GetConstraints
CodeOf(call) == call.result.error.code
\* the codes of validateComparisonRequest
RequestCodes ==
    {"INSUFFICIENT_OPTIONS", "TOO_MANY_OPTIONS", "NO_CONSTRAINTS", "INVALID_FORMAT",
     "INVALID_OPTION", "INVALID_CONSTRAINT", "MISSING_SCORE"}

\* C30 (as stated): a performComparison call that returns a failure leaves
\* what getOptions and getConstraints return as it was before the call,
\* after any calls that add, remove, update or compare.
C30_FailureLeavesStoreUnchanged == [][ComparisonFails => StoredUnchanged]_vars

\* C30's case: with a constraint stored, performComparison has been called
\* with two options of one id; it has returned DUPLICATE_ID, and the system
\* now holds the first of the two options and no constraint.
C30_FailedSetupStored ==
    /\ Len(history) = 2
    /\ history[1].operation = "addConstraint" /\ history[1].result.success
    /\ LastCall.operation = "performComparison"
    /\ ~LastCall.result.success /\ CodeOf(LastCall) = "DUPLICATE_ID"
    /\ GetOptions = <<SystemOption("A", Fin(0))>>
    /\ GetConstraints = <<>>

\* What holds of the code: a performComparison call that fails in
\* validateComparisonRequest leaves the stored options and constraints as
\* they were.
C30_RejectedRequestLeavesStoreUnchanged ==
    [][ComparisonFails /\ CodeOf(history'[Len(history')]) \in RequestCodes
         => StoredUnchanged]_vars

====
